---- MODULE Spec2Model ----
(***************************************************************************)
(* The coordinator's shadow of the DLC channels of the channel engine:     *)
(* the event-consumption task of coordinator/src/node/channel.rs, its two  *)
(* handlers (shadow_dlc_channel, check_for_dlc_channel_closures), and the  *)
(* store they write to.                                                    *)
(*                                                                         *)
(* An Option<T> is a sequence: <<>> is None and <<x>> is Some(x).  The     *)
(* result of an engine lookup (a Result<Channel>) is a sequence in the     *)
(* same way: <<>> is the failed lookup.                                    *)
(***************************************************************************)
EXTENDS Integers, Sequences, FiniteSets, TLC

VARIABLES
    channels,    \* the dlc_channels table: channel id -> row
    protocols,   \* the dlc_protocols table: protocol id -> row
    positions,   \* the positions table: trader -> the trader's positions, oldest first
    pc,          \* where the event-consumption task stands: recv, shadow, check, done
    lastRecv,    \* the outcome of the task's last receiver.recv()
    ev,          \* the DLC channel event being handled (the last one received)
    chan,        \* what the engine answers to a channel lookup of shadow_dlc_channel
    chanC,       \* what it answers to one of check_for_dlc_channel_closures
    contract,    \* what it answers to the closure check's get_contract_by_id
    shadowRes,   \* what shadow_dlc_channel returned for ev
    checkRes,    \* what check_for_dlc_channel_closures returned for ev
    delivered,   \* the number of DLC channel events received so far
    pnlChannel,  \* the channel id given to calculate_trader_realized_pnl_from_cet
    pnlCet,      \* the signed CET given to it
    pnlResult,   \* what it returned: Some(pnl), None for the error, "-" before the call
    engine,      \* the engine's channel 1 and its reference id, None while the engine is not followed
    emitted,     \* the DLC channel events the engine has emitted
    closing,     \* where a call of close_dlc_channel stands, and its previous_id and protocol_id
    closeRes,    \* what the last call of close_dlc_channel returned
    tierReferrals, \* the referred users given to calculate_referral_tier
    tierTiers,     \* the referral tiers given to it
    tierStatus     \* what it returned: Some(status), None before the call

\* The arguments and the result of a call of
\* calculate_trader_realized_pnl_from_cet on its own, and those of a call of
\* calculate_referral_tier.
pnlvars == <<pnlChannel, pnlCet, pnlResult, tierReferrals, tierTiers, tierStatus>>

\* The engine's side of channel 1 and the close command.
lifevars == <<engine, emitted, closing, closeRes>>

vars == <<channels, protocols, positions, pc, lastRecv, ev, chan, chanC, contract,
          shadowRes, checkRes, delivered, pnlChannel, pnlCet, pnlResult,
          engine, emitted, closing, closeRes, tierReferrals, tierTiers, tierStatus>>

----------------------------------------------------------------------------
(* Bounds *)

\* The DLC channel events the task receives in one run.
MaxEvents == 3
\* The positions one trader has had.
MaxPositions == 2

\* The channels and the protocol (reference) ids of the runs, and the
\* versions a channel's transactions and balances come in.
ChannelIds == {1, 2}
ProtocolIds == {1, 2}
Versions == {1, 2}

\* The outputs of a signed CET given to the PnL calculation on its own.
MaxOutputs == 2

\* The outcome strings of one attestation given to the price parsing on its own.
MaxOutcomes == 3

None == <<>>
Some(x) == <<x>>

----------------------------------------------------------------------------
(* The store's records *)

DlcChannelState == {"Pending", "Open", "Closing", "Closed", "Failed", "Cancelled"}

DlcProtocolType ==
    {"OpenChannel", "OpenPosition", "Settle", "Rollover", "ResizePosition",
     "Close", "ForceClose"}

DlcChannelEventTags ==
    {"Offered", "Accepted", "Established", "SettledOffered", "SettledReceived",
     "SettledAccepted", "SettledConfirmed", "Settled", "SettledClosing",
     "RenewOffered", "RenewAccepted", "RenewConfirmed", "RenewFinalized",
     "Closing", "CollaborativeCloseOffered", "Closed", "CounterClosed",
     "ClosedPunished", "CollaborativelyClosed", "FailedAccept", "FailedSign",
     "Cancelled", "Deleted"}

IntermediateTags ==
    {"Accepted", "SettledOffered", "SettledReceived", "SettledAccepted",
     "SettledConfirmed", "RenewOffered", "RenewAccepted", "RenewConfirmed",
     "RenewFinalized"}

----------------------------------------------------------------------------
(* The channel engine, seen through its lookups.  A Channel is a tagged    *)
(* variant; each form carries only the fields the handlers read from it.   *)
(* The index v picks one of the Versions of the channel's                  *)
(* transactions and balances, so that two answers for the same channel can *)
(* differ in every value at once.                                          *)

\* channel.get_counter_party_id(): the trader's key, fixed per channel.
EngineCounterParty(id) == 10 + id

Traders == {EngineCounterParty(id) : id \in ChannelIds}

FundTxid(v) == 100 + v
BufferTxid(v) == 200 + v
SettleTxid(v) == 300 + v
ClaimTxid(v) == 400 + v
CloseTxid(v) == 500 + v
PunishTxid(v) == 600 + v

\* get_dlc_channel_usable_balance / _counterparty and the collaterals, in sats.
OwnBalance(v) == 1000 * v
CounterBalance(v) == 3900 + 800 * v
OwnCollateral(v) == 2000 * v
CounterCollateral(v) == 5000 + 500 * v

OfferedChannel(id) ==
    [form |-> "Offered", id |-> id, counter_party |-> EngineCounterParty(id)]

AcceptedChannel(id) ==
    [form |-> "Accepted", id |-> id, counter_party |-> EngineCounterParty(id)]

\* Channel::Signed: state is the SignedChannelState; buffer_transaction,
\* settle_transaction and close_tx are those of the sub-states that carry one.
SignedChannel(id, state, v) ==
    [form |-> "Signed", id |-> id, counter_party |-> EngineCounterParty(id),
     state |-> state, fund_tx |-> FundTxid(v),
     buffer_transaction |-> BufferTxid(v), settle_transaction |-> SettleTxid(v),
     close_tx |-> CloseTxid(v),
     own_balance |-> OwnBalance(v), counter_balance |-> CounterBalance(v),
     own_collateral |-> OwnCollateral(v),
     counter_collateral |-> CounterCollateral(v)]

ClosingChannel(id, v) ==
    [form |-> "Closing", id |-> id, counter_party |-> EngineCounterParty(id),
     buffer_transaction |-> BufferTxid(v)]

SettledClosingChannel(id, v) ==
    [form |-> "SettledClosing", id |-> id, counter_party |-> EngineCounterParty(id),
     settle_transaction |-> SettleTxid(v), claim_transaction |-> ClaimTxid(v)]

\* Channel::Closed, Channel::CounterClosed, Channel::CollaborativelyClosed
ClosedChannel(form, id, v) ==
    [form |-> form, id |-> id, counter_party |-> EngineCounterParty(id),
     closing_txid |-> CloseTxid(v)]

ClosedPunishedChannel(id, v) ==
    [form |-> "ClosedPunished", id |-> id, counter_party |-> EngineCounterParty(id),
     punish_txid |-> PunishTxid(v)]

\* Channel::FailedAccept, Channel::FailedSign, Channel::Cancelled
FailedChannel(form, id) ==
    [form |-> form, id |-> id, counter_party |-> EngineCounterParty(id)]

ClosedForms == {"Closed", "CounterClosed", "CollaborativelyClosed"}

\* The channels the engine takes through their whole life.  The other
\* channels are only ever offered: their rows are the bystanders of every
\* write to a row of these.
LifecycleChannels == {1}

\* What get_dlc_channel_by_reference_id can answer while an event with this
\* tag is handled: the failed lookup, the forms the engine holds the channel
\* in when it emits the event, and forms the handler's match rejects.
EngineAnswers(tag) ==
    {None} \cup
    CASE tag = "Offered" ->
           {Some(OfferedChannel(id)) : id \in ChannelIds}
      [] tag = "Accepted" ->
           {Some(AcceptedChannel(id)) : id \in LifecycleChannels}
      [] tag \in {"Established", "Settled"} ->
           {Some(SignedChannel(id, tag, v)) : id \in LifecycleChannels, v \in Versions}
           \cup {Some(AcceptedChannel(id)) : id \in LifecycleChannels}
           \cup {Some(ClosingChannel(id, 1)) : id \in LifecycleChannels}
      [] tag = "SettledClosing" ->
           {Some(SignedChannel(id, tag, v)) : id \in LifecycleChannels, v \in Versions}
           \cup {Some(SettledClosingChannel(id, v)) : id \in LifecycleChannels, v \in Versions}
           \cup {Some(SignedChannel(id, "Settled", 1)) : id \in LifecycleChannels}
      [] tag = "Closing" ->
           {Some(SignedChannel(id, tag, v)) : id \in LifecycleChannels, v \in Versions}
           \cup {Some(ClosingChannel(id, v)) : id \in LifecycleChannels, v \in Versions}
           \cup {Some(SignedChannel(id, "Established", 1)) : id \in LifecycleChannels}
           \cup {Some(ClosedChannel("Closed", id, 1)) : id \in LifecycleChannels}
      [] tag = "ClosedPunished" ->
           {Some(ClosedPunishedChannel(id, v)) : id \in LifecycleChannels, v \in Versions}
           \cup {Some(ClosedChannel("Closed", id, 1)) : id \in LifecycleChannels}
      [] tag = "CollaborativeCloseOffered" ->
           {Some(SignedChannel(id, tag, v)) : id \in LifecycleChannels, v \in Versions}
           \cup {Some(SignedChannel(id, "Established", 1)) : id \in LifecycleChannels}
      [] tag \in ClosedForms ->
           {Some(ClosedChannel(f, id, v)) :
               f \in ClosedForms, id \in LifecycleChannels, v \in Versions}
           \cup {Some(ClosingChannel(id, 1)) : id \in LifecycleChannels}
      [] tag \in {"FailedAccept", "FailedSign", "Cancelled"} ->
           {Some(FailedChannel(tag, id)) : id \in LifecycleChannels}
      [] tag = "Deleted" ->
           {Some(FailedChannel("FailedAccept", id)) : id \in LifecycleChannels}
      [] OTHER ->
           {Some(SignedChannel(id, tag, 1)) : id \in LifecycleChannels}

----------------------------------------------------------------------------
(* The store (db::dlc_channels, db::dlc_protocols).  Every operation takes *)
(* the table and returns [ok, table]: ok is FALSE when the operation       *)
(* reports an error, and the table is then unchanged.  created_at and      *)
(* updated_at are left out of the rows.                                    *)

\* The row insert_pending_dlc_channel writes.
PendingDlcChannel(trader) ==
    [trader |-> trader, channel_state |-> "Pending",
     trader_reserve_sats |-> 0, coordinator_reserve_sats |-> 0,
     coordinator_funding_sats |-> 0, trader_funding_sats |-> 0,
     funding_txid |-> None, close_txid |-> None, settle_txid |-> None,
     buffer_txid |-> None, claim_txid |-> None, punish_txid |-> None]

\* channel_id is unique: a second insert for the same id is refused.
insert_pending_dlc_channel(tbl, channel_id, trader) ==
    IF channel_id \in DOMAIN tbl
    THEN [ok |-> FALSE, table |-> tbl]
    ELSE [ok |-> TRUE, table |-> tbl @@ (channel_id :> PendingDlcChannel(trader))]

\* An update of the row of channel_id; no row found is an error.
UpdateDlcChannel(tbl, channel_id, row) ==
    IF channel_id \in DOMAIN tbl
    THEN [ok |-> TRUE, table |-> [tbl EXCEPT ![channel_id] = row]]
    ELSE [ok |-> FALSE, table |-> tbl]

RowOf(tbl, channel_id) ==
    IF channel_id \in DOMAIN tbl THEN tbl[channel_id] ELSE PendingDlcChannel(0)

set_dlc_channel_open(tbl, channel_id, funding_txid, coordinator_reserve, trader_reserve, coordinator_funding, trader_funding) ==
    UpdateDlcChannel(tbl, channel_id,
        [RowOf(tbl, channel_id) EXCEPT
            !.channel_state = "Open",
            !.funding_txid = Some(funding_txid),
            !.coordinator_reserve_sats = coordinator_reserve,
            !.trader_reserve_sats = trader_reserve,
            !.coordinator_funding_sats = coordinator_funding,
            !.trader_funding_sats = trader_funding])

update_channel(tbl, channel_id, coordinator_reserve, trader_reserve) ==
    UpdateDlcChannel(tbl, channel_id,
        [RowOf(tbl, channel_id) EXCEPT
            !.coordinator_reserve_sats = coordinator_reserve,
            !.trader_reserve_sats = trader_reserve])

\* claim_txid is written only when a claim transaction is given.
set_channel_force_closing_settled(tbl, channel_id, settle_txid, claim_txid) ==
    UpdateDlcChannel(tbl, channel_id,
        [RowOf(tbl, channel_id) EXCEPT
            !.channel_state = "Closing",
            !.settle_txid = Some(settle_txid),
            !.claim_txid = IF claim_txid = None THEN @ ELSE claim_txid])

set_channel_force_closing(tbl, channel_id, buffer_txid) ==
    UpdateDlcChannel(tbl, channel_id,
        [RowOf(tbl, channel_id) EXCEPT
            !.channel_state = "Closing",
            !.buffer_txid = Some(buffer_txid)])

set_channel_punished(tbl, channel_id, punish_txid) ==
    UpdateDlcChannel(tbl, channel_id,
        [RowOf(tbl, channel_id) EXCEPT
            !.channel_state = "Closed",
            !.punish_txid = Some(punish_txid)])

set_channel_collab_closing(tbl, channel_id, close_txid) ==
    UpdateDlcChannel(tbl, channel_id,
        [RowOf(tbl, channel_id) EXCEPT
            !.channel_state = "Closing",
            !.close_txid = Some(close_txid)])

set_channel_collab_closed(tbl, channel_id, close_txid) ==
    UpdateDlcChannel(tbl, channel_id,
        [RowOf(tbl, channel_id) EXCEPT
            !.channel_state = "Closed",
            !.close_txid = Some(close_txid)])

\* The protocol row start_dlc_protocol inserts.
PendingDlcProtocol(previous_id, contract_id, channel_id, protocol_type) ==
    [previous_protocol_id |-> previous_id, contract_id |-> contract_id,
     channel_id |-> channel_id, trader |-> EngineCounterParty(channel_id),
     protocol_type |-> protocol_type, status |-> "Pending"]

\* Marks the protocol of protocol_id; a protocol that is not stored is left
\* alone and no error is reported.
SetProtocolStatus(ptbl, protocol_id, status) ==
    IF protocol_id \in DOMAIN ptbl
    THEN [ok |-> TRUE, table |-> [ptbl EXCEPT ![protocol_id].status = status]]
    ELSE [ok |-> TRUE, table |-> ptbl]

set_channel_failed(ptbl, protocol_id) == SetProtocolStatus(ptbl, protocol_id, "Failed")

set_channel_cancelled(ptbl, protocol_id) ==
    SetProtocolStatus(ptbl, protocol_id, "Cancelled")

\* Option<DlcProtocol>'s error form: no row is NotFound.
get_dlc_protocol(ptbl, protocol_id) ==
    IF protocol_id \in DOMAIN ptbl THEN Some(ptbl[protocol_id]) ELSE None

----------------------------------------------------------------------------
(* shadow_dlc_channel.  Each operator returns [res, channels, protocols]:  *)
(* what the handler returns ("Ok" or the error) and the two tables after   *)
(* it.                                                                     *)

Return(res, tbl, ptbl) == [res |-> res, channels |-> tbl, protocols |-> ptbl]

\* `db::dlc_channels::f(..)?` followed by Ok(()): the channel table write.
ChannelWrite(w, ptbl) ==
    Return(IF w.ok THEN "Ok" ELSE "StoreError", w.table, ptbl)

\* `db::dlc_channels::f(..)?` followed by Ok(()): the protocol table write.
ProtocolWrite(w, tbl) ==
    Return(IF w.ok THEN "Ok" ELSE "StoreError", tbl, w.table)

\* The mutant of C25: the protocol of a deleted channel is removed.
ShadowDeleted_RemovesProtocol(protocol_id, tbl, ptbl) ==
    Return("Ok", tbl, [q \in DOMAIN ptbl \ {protocol_id} |-> ptbl[q]])

ShadowDeleted(protocol_id, tbl, ptbl) ==
    ProtocolWrite(set_channel_failed(ptbl, protocol_id), tbl)

\* The mutant of C5: the row gets the coordinator's own key (0) as trader.
ShadowOffered_OwnKey(channel, protocol_id, tbl, ptbl) ==
    ChannelWrite(insert_pending_dlc_channel(tbl, channel.id, 0), ptbl)

ShadowOffered(channel, protocol_id, tbl, ptbl) ==
    ChannelWrite(
        insert_pending_dlc_channel(tbl, channel.id, channel.counter_party), ptbl)

\* The mutant of C6: the two usable balances are taken for each other.
ShadowSignedByProtocolType_SwappedReserves(signed_channel, protocol_type, tbl, ptbl) ==
    LET trader_reserve == signed_channel.own_balance
        coordinator_reserve == signed_channel.counter_balance
        coordinator_funding == signed_channel.own_collateral
        trader_funding == signed_channel.counter_collateral
    IN  CASE protocol_type = "OpenChannel" ->
               ChannelWrite(
                   set_dlc_channel_open(tbl, signed_channel.id, signed_channel.fund_tx,
                                        coordinator_reserve, trader_reserve,
                                        coordinator_funding, trader_funding), ptbl)
          [] protocol_type \in {"OpenPosition", "Settle", "Rollover", "ResizePosition"} ->
               ChannelWrite(
                   update_channel(tbl, signed_channel.id, coordinator_reserve,
                                  trader_reserve), ptbl)
          [] protocol_type \in {"Close", "ForceClose"} ->
               Return("Ok", tbl, ptbl)

\* The mutant of C7: every protocol type but Close and ForceClose takes the
\* arm of OpenChannel.
ShadowSignedByProtocolType_AllOpen(signed_channel, protocol_type, tbl, ptbl) ==
    IF protocol_type \in {"Close", "ForceClose"}
    THEN Return("Ok", tbl, ptbl)
    ELSE ChannelWrite(
             set_dlc_channel_open(tbl, signed_channel.id, signed_channel.fund_tx,
                                  signed_channel.own_balance,
                                  signed_channel.counter_balance,
                                  signed_channel.own_collateral,
                                  signed_channel.counter_collateral), ptbl)

\* The mutant of C27: the arm of OpenChannel records the current balances
\* as the funding amounts.
ShadowSignedByProtocolType_FundingFromReserves(signed_channel, protocol_type, tbl, ptbl) ==
    LET trader_reserve == signed_channel.counter_balance
        coordinator_reserve == signed_channel.own_balance
    IN  CASE protocol_type = "OpenChannel" ->
               ChannelWrite(
                   set_dlc_channel_open(tbl, signed_channel.id, signed_channel.fund_tx,
                                        coordinator_reserve, trader_reserve,
                                        coordinator_reserve, trader_reserve), ptbl)
          [] protocol_type \in {"OpenPosition", "Settle", "Rollover", "ResizePosition"} ->
               ChannelWrite(
                   update_channel(tbl, signed_channel.id, coordinator_reserve,
                                  trader_reserve), ptbl)
          [] protocol_type \in {"Close", "ForceClose"} ->
               Return("Ok", tbl, ptbl)

\* The match on dlc_protocol.protocol_type of the Established | Settled arm.
ShadowSignedByProtocolType(signed_channel, protocol_type, tbl, ptbl) ==
    LET trader_reserve == signed_channel.counter_balance
        coordinator_reserve == signed_channel.own_balance
        coordinator_funding == signed_channel.own_collateral
        trader_funding == signed_channel.counter_collateral
    IN  CASE protocol_type = "OpenChannel" ->
               ChannelWrite(
                   set_dlc_channel_open(tbl, signed_channel.id, signed_channel.fund_tx,
                                        coordinator_reserve, trader_reserve,
                                        coordinator_funding, trader_funding), ptbl)
          [] protocol_type \in {"OpenPosition", "Settle", "Rollover", "ResizePosition"} ->
               ChannelWrite(
                   update_channel(tbl, signed_channel.id, coordinator_reserve,
                                  trader_reserve), ptbl)
          [] protocol_type \in {"Close", "ForceClose"} ->
               Return("Ok", tbl, ptbl)

\* The mutant of C8: a channel that is not signed is passed over without an
\* error.
ShadowEstablished_UnsignedSkipped(channel, protocol_id, tbl, ptbl) ==
    IF channel.form # "Signed"
    THEN Return("Ok", tbl, ptbl)
    ELSE LET dlc_protocol == get_dlc_protocol(ptbl, protocol_id)
         IN  IF dlc_protocol = None
             THEN Return("NotFound", tbl, ptbl)
             ELSE ShadowSignedByProtocolType(
                      channel, dlc_protocol[1].protocol_type, tbl, ptbl)

ShadowEstablished(channel, protocol_id, tbl, ptbl) ==
    IF channel.form # "Signed"
    THEN Return("UnexpectedChannelState", tbl, ptbl)
    ELSE LET dlc_protocol == get_dlc_protocol(ptbl, protocol_id)
         IN  IF dlc_protocol = None
             THEN Return("NotFound", tbl, ptbl)
             ELSE ShadowSignedByProtocolType(
                      channel, dlc_protocol[1].protocol_type, tbl, ptbl)

\* The mutant of C33: only the arm of Channel::SettledClosing is there.
ShadowSettledClosing_SettledClosingChannelOnly(channel, tbl, ptbl) ==
    IF channel.form = "SettledClosing"
    THEN ChannelWrite(
             set_channel_force_closing_settled(
                 tbl, channel.id, channel.settle_transaction,
                 Some(channel.claim_transaction)), ptbl)
    ELSE Return("UnexpectedChannelState", tbl, ptbl)

ShadowSettledClosing(channel, tbl, ptbl) ==
    CASE channel.form = "Signed" /\ channel.state = "SettledClosing" ->
           ChannelWrite(
               set_channel_force_closing_settled(
                   tbl, channel.id, channel.settle_transaction, None), ptbl)
      [] channel.form = "SettledClosing" ->
           ChannelWrite(
               set_channel_force_closing_settled(
                   tbl, channel.id, channel.settle_transaction,
                   Some(channel.claim_transaction)), ptbl)
      [] OTHER -> Return("UnexpectedChannelState", tbl, ptbl)

\* The mutant of C9: the arm of the signed channel in its Closing state is
\* missing.
ShadowClosing_ClosingChannelOnly(channel, tbl, ptbl) ==
    IF channel.form = "Closing"
    THEN ChannelWrite(
             set_channel_force_closing(tbl, channel.id, channel.buffer_transaction), ptbl)
    ELSE Return("UnexpectedChannelState", tbl, ptbl)

\* The mutant of C11: a Closing event for a row that is Closing already is
\* taken for the close of the channel.
ShadowClosing_RedeliveryCloses(channel, tbl, ptbl) ==
    IF channel.form \in {"Signed", "Closing"}
       /\ (channel.form = "Signed" => channel.state = "Closing")
    THEN IF RowOf(tbl, channel.id).channel_state = "Closing"
         THEN ChannelWrite(
                  set_channel_collab_closed(tbl, channel.id, channel.buffer_transaction),
                  ptbl)
         ELSE ChannelWrite(
                  set_channel_force_closing(tbl, channel.id, channel.buffer_transaction),
                  ptbl)
    ELSE Return("UnexpectedChannelState", tbl, ptbl)

\* The mutant of C24: a channel the engine holds closed already is taken for
\* a closing one.
ShadowClosing_ClosedFormsToo(channel, tbl, ptbl) ==
    CASE channel.form = "Signed" /\ channel.state = "Closing" ->
           ChannelWrite(
               set_channel_force_closing(tbl, channel.id, channel.buffer_transaction),
               ptbl)
      [] channel.form = "Closing" ->
           ChannelWrite(
               set_channel_force_closing(tbl, channel.id, channel.buffer_transaction),
               ptbl)
      [] channel.form \in ClosedForms ->
           ChannelWrite(
               set_channel_force_closing(tbl, channel.id, channel.closing_txid), ptbl)
      [] OTHER -> Return("UnexpectedChannelState", tbl, ptbl)

ShadowClosing(channel, tbl, ptbl) ==
    CASE channel.form = "Signed" /\ channel.state = "Closing" ->
           ChannelWrite(
               set_channel_force_closing(tbl, channel.id, channel.buffer_transaction),
               ptbl)
      [] channel.form = "Closing" ->
           ChannelWrite(
               set_channel_force_closing(tbl, channel.id, channel.buffer_transaction),
               ptbl)
      [] OTHER -> Return("UnexpectedChannelState", tbl, ptbl)

\* The mutant of C34: a channel closed in another way is taken for a punished
\* one, its closing transaction for the punish transaction.
ShadowClosedPunished_ClosedFormsToo(channel, tbl, ptbl) ==
    CASE channel.form = "ClosedPunished" ->
           ChannelWrite(set_channel_punished(tbl, channel.id, channel.punish_txid), ptbl)
      [] channel.form \in ClosedForms ->
           ChannelWrite(set_channel_punished(tbl, channel.id, channel.closing_txid), ptbl)
      [] OTHER -> Return("UnexpectedChannelState", tbl, ptbl)

ShadowClosedPunished(channel, tbl, ptbl) ==
    IF channel.form = "ClosedPunished"
    THEN ChannelWrite(set_channel_punished(tbl, channel.id, channel.punish_txid), ptbl)
    ELSE Return("UnexpectedChannelState", tbl, ptbl)

\* The mutant of C23: the offered close transaction is stored as the buffer
\* transaction of a force close.
ShadowCollaborativeCloseOffered_AsForceClosing(channel, tbl, ptbl) ==
    IF channel.form = "Signed" /\ channel.state = "CollaborativeCloseOffered"
    THEN ChannelWrite(set_channel_force_closing(tbl, channel.id, channel.close_tx), ptbl)
    ELSE Return("UnexpectedChannelState", tbl, ptbl)

\* The mutant of C35: the offer of a collaborative close is stored as the
\* close itself.
ShadowCollaborativeCloseOffered_MarksClosed(channel, tbl, ptbl) ==
    IF channel.form = "Signed" /\ channel.state = "CollaborativeCloseOffered"
    THEN ChannelWrite(set_channel_collab_closed(tbl, channel.id, channel.close_tx), ptbl)
    ELSE Return("UnexpectedChannelState", tbl, ptbl)

ShadowCollaborativeCloseOffered(channel, tbl, ptbl) ==
    IF channel.form = "Signed" /\ channel.state = "CollaborativeCloseOffered"
    THEN ChannelWrite(set_channel_collab_closing(tbl, channel.id, channel.close_tx), ptbl)
    ELSE Return("UnexpectedChannelState", tbl, ptbl)

\* The mutant of C12: only the arm of Channel::Closed is there.
ShadowClosed_ClosedOnly(channel, tbl, ptbl) ==
    IF channel.form = "Closed"
    THEN ChannelWrite(
             set_channel_collab_closed(tbl, channel.id, channel.closing_txid), ptbl)
    ELSE Return("UnexpectedChannelState", tbl, ptbl)

\* The mutant of C31: the broadcast of the closing transaction is stored as
\* one more buffer transaction of a force close.
ShadowClosed_AsForceClosing(channel, tbl, ptbl) ==
    IF channel.form \in ClosedForms
    THEN ChannelWrite(
             set_channel_force_closing(tbl, channel.id, channel.closing_txid), ptbl)
    ELSE Return("UnexpectedChannelState", tbl, ptbl)

ShadowClosed(channel, tbl, ptbl) ==
    IF channel.form \in ClosedForms
    THEN ChannelWrite(
             set_channel_collab_closed(tbl, channel.id, channel.closing_txid), ptbl)
    ELSE Return("UnexpectedChannelState", tbl, ptbl)

\* The mutant of C15: the failed arms want the row of the protocol's channel
\* to be there.
ShadowFailed_NeedsRow(protocol_id, tbl, ptbl) ==
    IF protocol_id \in DOMAIN ptbl /\ ptbl[protocol_id].channel_id \notin DOMAIN tbl
    THEN Return("NotFound", tbl, ptbl)
    ELSE ProtocolWrite(set_channel_failed(ptbl, protocol_id), tbl)

ShadowFailed(protocol_id, tbl, ptbl) ==
    ProtocolWrite(set_channel_failed(ptbl, protocol_id), tbl)

\* The mutant of C14: the Cancelled arm calls what the failed arms call.
ShadowCancelled_MarksFailed(protocol_id, tbl, ptbl) ==
    ProtocolWrite(set_channel_failed(ptbl, protocol_id), tbl)

ShadowCancelled(protocol_id, tbl, ptbl) ==
    ProtocolWrite(set_channel_cancelled(ptbl, protocol_id), tbl)

\* The mutant of C1: the event without a reference id is skipped silently.
ShadowWithoutReferenceId_Skipped(tbl, ptbl) == Return("Ok", tbl, ptbl)

\* The event carries no reference id: the handler bails.
ShadowWithoutReferenceId(tbl, ptbl) == Return("MissingReferenceId", tbl, ptbl)

\* The mutant of C16: a negotiation event is taken for the offer.
ShadowIgnored_InsertsPending(channel, protocol_id, tbl, ptbl) ==
    ShadowOffered(channel, protocol_id, tbl, ptbl)

\* The arm of the intermediate negotiation events: nothing is done.
ShadowIgnored(channel, protocol_id, tbl, ptbl) == Return("Ok", tbl, ptbl)

\* The match on dlc_channel_event, once the channel has been looked up.
ShadowDispatch(tag, channel, protocol_id, tbl, ptbl) ==
    CASE tag = "Offered" -> ShadowOffered(channel, protocol_id, tbl, ptbl)
      [] tag \in {"Established", "Settled"} ->
           ShadowEstablished(channel, protocol_id, tbl, ptbl)
      [] tag = "SettledClosing" -> ShadowSettledClosing(channel, tbl, ptbl)
      [] tag = "Closing" -> ShadowClosing(channel, tbl, ptbl)
      [] tag = "ClosedPunished" -> ShadowClosedPunished(channel, tbl, ptbl)
      [] tag = "CollaborativeCloseOffered" ->
           ShadowCollaborativeCloseOffered(channel, tbl, ptbl)
      [] tag \in ClosedForms -> ShadowClosed(channel, tbl, ptbl)
      [] tag \in {"FailedAccept", "FailedSign"} -> ShadowFailed(protocol_id, tbl, ptbl)
      [] tag = "Cancelled" -> ShadowCancelled(protocol_id, tbl, ptbl)
      [] tag = "Deleted" -> Return("Ok", tbl, ptbl)
      [] tag \in IntermediateTags -> ShadowIgnored(channel, protocol_id, tbl, ptbl)

\* The mutant of C4: the channel is looked up before the Deleted event is told
\* from the others.
shadow_dlc_channel_LookupFirst(event, answer, tbl, ptbl) ==
    IF event.ref = None
    THEN ShadowWithoutReferenceId(tbl, ptbl)
    ELSE IF answer = None
    THEN Return("ChannelLookupFailed", tbl, ptbl)
    ELSE IF event.tag = "Deleted"
    THEN ShadowDeleted(event.ref[1], tbl, ptbl)
    ELSE ShadowDispatch(event.tag, answer[1], event.ref[1], tbl, ptbl)

\* The mutant of C39: the channel is looked up where the arm of the event
\* reads it, the arms of the failed and cancelled events doing without.
shadow_dlc_channel_LookupWhereRead(event, answer, tbl, ptbl) ==
    IF event.ref = None
    THEN ShadowWithoutReferenceId(tbl, ptbl)
    ELSE IF event.tag = "Deleted"
    THEN ShadowDeleted(event.ref[1], tbl, ptbl)
    ELSE IF event.tag \in {"FailedAccept", "FailedSign"}
    THEN ShadowFailed(event.ref[1], tbl, ptbl)
    ELSE IF event.tag = "Cancelled"
    THEN ShadowCancelled(event.ref[1], tbl, ptbl)
    ELSE IF answer = None
    THEN Return("ChannelLookupFailed", tbl, ptbl)
    ELSE ShadowDispatch(event.tag, answer[1], event.ref[1], tbl, ptbl)

\* event is [tag, ref]; answer is what get_dlc_channel_by_reference_id returns
\* if the handler asks.
shadow_dlc_channel(event, answer, tbl, ptbl) ==
    IF event.ref = None
    THEN ShadowWithoutReferenceId(tbl, ptbl)
    ELSE IF event.tag = "Deleted"
    THEN ShadowDeleted(event.ref[1], tbl, ptbl)
    ELSE IF answer = None
    THEN Return("ChannelLookupFailed", tbl, ptbl)
    ELSE ShadowDispatch(event.tag, answer[1], event.ref[1], tbl, ptbl)

----------------------------------------------------------------------------
(* Positions (db::positions).  A trader's positions are a sequence, oldest *)
(* first; a position's id is <<trader, index>>.                            *)

OpenPosition == [state |-> "Open"]
ClosingPosition(closing_price) == [state |-> "Closing", closing_price |-> closing_price]
ClosedPosition(pnl, closing_price) ==
    [state |-> "Closed", pnl |-> pnl, closing_price |-> closing_price]

PositionsIn(postab, trader, state) ==
    {i \in DOMAIN postab[trader] : postab[trader][i].state = state}

\* Returns [rows, table]: every Open position of the trader becomes Closing.
set_open_position_to_closing(postab, trader, closing_price) ==
    IF trader \notin DOMAIN postab
    THEN [rows |-> 0, table |-> postab]
    ELSE [rows |-> Cardinality(PositionsIn(postab, trader, "Open")),
          table |-> [postab EXCEPT ![trader] =
                        [i \in DOMAIN @ |->
                            IF @[i].state = "Open"
                            THEN ClosingPosition(closing_price) ELSE @[i]]]]

\* The trader's position in the given state, as Some(id), the oldest if several.
get_position_by_trader(postab, trader, state) ==
    IF trader \notin DOMAIN postab \/ PositionsIn(postab, trader, state) = {}
    THEN None
    ELSE LET S == PositionsIn(postab, trader, state)
         IN  Some(<<trader, CHOOSE i \in S : \A j \in S : i <= j>>)

set_position_to_closed_with_pnl(postab, id, pnl, closing_price) ==
    IF id[1] \in DOMAIN postab /\ id[2] \in DOMAIN postab[id[1]]
    THEN [rows |-> 1,
          table |-> [postab EXCEPT ![id[1]][id[2]] = ClosedPosition(pnl, closing_price)]]
    ELSE [rows |-> 0, table |-> postab]

----------------------------------------------------------------------------
(* The contract of a closed channel, as get_contract_by_id answers.  An    *)
(* outcome string is the sequence of its characters.                       *)

Bit0 == <<"0">>
Bit1 == <<"1">>

Attestation(outcomes) == [outcomes |-> outcomes]

\* A signed CET: its outputs, each with its value and whether is_mine holds
\* for its script.
Cet(v) ==
    [output |-> <<[value |-> 4200 + 800 * v, mine |-> FALSE],
                  [value |-> 3000, mine |-> TRUE],
                  [value |-> 500 * (v - 1), mine |-> FALSE]>>]

PreClosedContract(attestations, signed_cet) ==
    [form |-> "PreClosed", attestations |-> attestations, signed_cet |-> signed_cet]

ClosedContract(attestations, signed_cet) ==
    [form |-> "Closed", attestations |-> attestations, signed_cet |-> signed_cet]

ConfirmedContract == [form |-> "Confirmed"]

EngineContracts ==
    {None,
     Some(PreClosedContract(Some(<<Attestation(<<Bit1, Bit0, Bit1>>)>>), Cet(1))),
     Some(PreClosedContract(Some(<<Attestation(<<Bit1, Bit1, Bit0>>),
                                   Attestation(<<Bit1>>)>>), Cet(2))),
     Some(PreClosedContract(None, Cet(1))),
     Some(PreClosedContract(Some(<<>>), Cet(1))),
     Some(PreClosedContract(Some(<<Attestation(<<>>)>>), Cet(1))),
     Some(ClosedContract(Some(<<Attestation(<<Bit1, Bit0, Bit1>>)>>), Some(Cet(2)))),
     Some(ClosedContract(Some(<<Attestation(<<Bit1, Bit0, Bit1>>)>>), None)),
     Some(ClosedContract(None, Some(Cet(1)))),
     Some(ConfirmedContract)}

\* The mutant of C21: only the first outcome string is read.
Join_FirstOutcome(strs) == IF strs = <<>> THEN <<>> ELSE Head(strs)

\* outcomes.join("")
RECURSIVE Join(_)
Join(strs) == IF strs = <<>> THEN <<>> ELSE Head(strs) \o Join(Tail(strs))

DigitValue(c) == CASE c = "0" -> 0 [] c = "1" -> 1 [] OTHER -> -1

RECURSIVE DigitsValue(_, _)
DigitsValue(str, acc) ==
    IF str = <<>> THEN acc ELSE DigitsValue(Tail(str), 2 * acc + DigitValue(Head(str)))

RECURSIVE DecimalDigitsValue(_, _)
DecimalDigitsValue(str, acc) ==
    IF str = <<>> THEN acc
    ELSE DecimalDigitsValue(Tail(str), 10 * acc + DigitValue(Head(str)))

\* The mutant of C18: the outcome's digits are read in radix 10.
from_str_radix_10(str) ==
    IF str = <<>> \/ \E i \in DOMAIN str : DigitValue(str[i]) < 0
    THEN None
    ELSE Some(DecimalDigitsValue(str, 0))

\* Decimal::from_str_radix(str, 2): None is the parse error.
from_str_radix_2(str) ==
    IF str = <<>> \/ \E i \in DOMAIN str : DigitValue(str[i]) < 0
    THEN None
    ELSE Some(DigitsValue(str, 0))

\* The mutant of C19: the outputs are summed whoever owns them.
RECURSIVE TraderPayout_AllOutputs(_)
TraderPayout_AllOutputs(outputs) ==
    IF outputs = <<>> THEN 0
    ELSE Head(outputs).value + TraderPayout_AllOutputs(Tail(outputs))

RECURSIVE TraderPayout(_)
TraderPayout(outputs) ==
    IF outputs = <<>> THEN 0
    ELSE (IF Head(outputs).mine THEN 0 ELSE Head(outputs).value)
         + TraderPayout(Tail(outputs))

\* The mutant of C20: a channel without a row counts with a reserve of zero.
calculate_trader_realized_pnl_from_cet_DefaultRow(tbl, channel_id, signed_cet) ==
    Some(TraderPayout(signed_cet.output)
         - (IF channel_id \in DOMAIN tbl THEN tbl[channel_id].trader_reserve_sats ELSE 0))

\* None is the error "Couldn't find dlc channel by channel id".
calculate_trader_realized_pnl_from_cet(tbl, channel_id, signed_cet) ==
    IF channel_id \notin DOMAIN tbl
    THEN None
    ELSE Some(TraderPayout(signed_cet.output) - tbl[channel_id].trader_reserve_sats)

----------------------------------------------------------------------------
(* The protocol executor's finalization, as the closure check uses it.     *)
(* The notification to the position feed is a sink outside this model.     *)

finish_dlc_protocol(ptbl, protocol_id) ==
    IF protocol_id \notin DOMAIN ptbl
    THEN [res |-> "NotFound", table |-> ptbl]
    ELSE IF ptbl[protocol_id].status # "Pending"
    THEN [res |-> "AlreadyFinalized", table |-> ptbl]
    ELSE [res |-> "Ok", table |-> [ptbl EXCEPT ![protocol_id].status = "Success"]]

----------------------------------------------------------------------------
(* check_for_dlc_channel_closures.  Each operator returns                  *)
(* [res, protocols, positions].                                            *)

CheckReturn(res, ptbl, postab) == [res |-> res, protocols |-> ptbl, positions |-> postab]

\* The mutant of C10: no position set to Closing is an error.
CheckClosing_ZeroRowsFails(answer, ptbl, postab) ==
    IF answer = None
    THEN CheckReturn("ChannelLookupFailed", ptbl, postab)
    ELSE LET w == set_open_position_to_closing(postab, answer[1].counter_party, None)
         IN  CheckReturn(IF w.rows > 0 THEN "Ok" ELSE "NoOpenPosition", ptbl, w.table)

\* The mutant of C26: every position of the trader becomes Closing, the
\* closed ones too.
CheckClosing_AllPositions(answer, ptbl, postab) ==
    IF answer = None
    THEN CheckReturn("ChannelLookupFailed", ptbl, postab)
    ELSE LET trader_id == answer[1].counter_party
         IN  CheckReturn("Ok", ptbl,
                 [postab EXCEPT ![trader_id] =
                     [i \in DOMAIN @ |-> ClosingPosition(None)]])

CheckClosing(answer, ptbl, postab) ==
    IF answer = None
    THEN CheckReturn("ChannelLookupFailed", ptbl, postab)
    ELSE LET trader_id == answer[1].counter_party
         IN  CheckReturn("Ok", ptbl,
                         set_open_position_to_closing(postab, trader_id, None).table)

\* The match on the contract: Some(<<closing_price, pnl>>) or the error.
ClosingPriceAndPnl(contract_answer, tbl, channel_id) ==
    LET c == contract_answer
        ok == \/ c.form = "PreClosed" /\ c.attestations # None
              \/ c.form = "Closed" /\ c.attestations # None /\ c.signed_cet # None
    IN  IF ~ok
        THEN [res |-> "UnexpectedContractState", val |-> None]
        ELSE LET signed_cet == IF c.form = "PreClosed" THEN c.signed_cet
                               ELSE c.signed_cet[1]
                 attestations == c.attestations[1]
                 pnl == calculate_trader_realized_pnl_from_cet(tbl, channel_id, signed_cet)
             IN  IF pnl = None
                 THEN [res |-> "NotFound", val |-> None]
                 ELSE IF attestations = <<>>
                 THEN [res |-> "NoAttestation", val |-> None]
                 ELSE LET price == from_str_radix_2(Join(Head(attestations).outcomes))
                      IN  IF price = None
                          THEN [res |-> "ParseError", val |-> None]
                          ELSE [res |-> "Ok", val |-> Some(<<price[1], pnl[1]>>)]

\* The mutant of C22: the trader's position is looked up whether it is
\* Closing or Closed already.
ClosingPositionOf_ClosedToo(postab, trader_id) ==
    IF get_position_by_trader(postab, trader_id, "Closing") # None
    THEN get_position_by_trader(postab, trader_id, "Closing")
    ELSE get_position_by_trader(postab, trader_id, "Closed")

\* get_position_by_trader(conn, trader_id, vec![PositionState::Closing { .. }])
ClosingPositionOf(postab, trader_id) ==
    get_position_by_trader(postab, trader_id, "Closing")

\* The mutant of C17: the arm of the other contract states gives a price and
\* a PnL of zero where the code bails.
CheckClosed_OtherStateCloses(protocol_id, contract_answer, tbl, ptbl, postab) ==
    LET dlc_protocol == get_dlc_protocol(ptbl, protocol_id)
    IN  IF dlc_protocol = None
        THEN CheckReturn("NotFound", ptbl, postab)
        ELSE IF dlc_protocol[1].contract_id = None
        THEN CheckReturn("MissingContractId", ptbl, postab)
        ELSE IF contract_answer = None
        THEN CheckReturn("MissingContract", ptbl, postab)
        ELSE LET trader_id == dlc_protocol[1].trader
                 position == get_position_by_trader(postab, trader_id, "Closing")
             IN  IF position = None
                 THEN CheckReturn("NoClosingPosition", ptbl, postab)
                 ELSE LET r == ClosingPriceAndPnl(contract_answer[1], tbl,
                                                  dlc_protocol[1].channel_id)
                      IN  IF r.res = "UnexpectedContractState"
                          THEN CheckReturn("Ok", ptbl,
                                   set_position_to_closed_with_pnl(
                                       postab, position[1], 0, 0).table)
                          ELSE IF r.res # "Ok"
                          THEN CheckReturn(r.res, ptbl, postab)
                          ELSE CheckReturn("Ok", ptbl,
                                   set_position_to_closed_with_pnl(
                                       postab, position[1], r.val[1][2],
                                       r.val[1][1]).table)

\* The mutant of C38: the closing price and the PnL are computed from the
\* contract before the trader's Closing position is looked up.
CheckClosed_PnlFirst(protocol_id, contract_answer, tbl, ptbl, postab) ==
    LET dlc_protocol == get_dlc_protocol(ptbl, protocol_id)
    IN  IF dlc_protocol = None
        THEN CheckReturn("NotFound", ptbl, postab)
        ELSE IF dlc_protocol[1].contract_id = None
        THEN CheckReturn("MissingContractId", ptbl, postab)
        ELSE IF contract_answer = None
        THEN CheckReturn("MissingContract", ptbl, postab)
        ELSE LET r == ClosingPriceAndPnl(contract_answer[1], tbl,
                                         dlc_protocol[1].channel_id)
                 position == get_position_by_trader(postab, dlc_protocol[1].trader,
                                                    "Closing")
             IN  IF r.res # "Ok"
                 THEN CheckReturn(r.res, ptbl, postab)
                 ELSE IF position = None
                 THEN CheckReturn("NoClosingPosition", ptbl, postab)
                 ELSE CheckReturn("Ok", ptbl,
                          set_position_to_closed_with_pnl(
                              postab, position[1], r.val[1][2], r.val[1][1]).table)

CheckClosed(protocol_id, contract_answer, tbl, ptbl, postab) ==
    LET dlc_protocol == get_dlc_protocol(ptbl, protocol_id)
    IN  IF dlc_protocol = None
        THEN CheckReturn("NotFound", ptbl, postab)
        ELSE IF dlc_protocol[1].contract_id = None
        THEN CheckReturn("MissingContractId", ptbl, postab)
        ELSE IF contract_answer = None
        THEN CheckReturn("MissingContract", ptbl, postab)
        ELSE LET trader_id == dlc_protocol[1].trader
                 position == ClosingPositionOf(postab, trader_id)
             IN  IF position = None
                 THEN CheckReturn("NoClosingPosition", ptbl, postab)
                 ELSE LET r == ClosingPriceAndPnl(contract_answer[1], tbl,
                                                  dlc_protocol[1].channel_id)
                      IN  IF r.res # "Ok"
                          THEN CheckReturn(r.res, ptbl, postab)
                          ELSE CheckReturn("Ok", ptbl,
                                   set_position_to_closed_with_pnl(
                                       postab, position[1], r.val[1][2],
                                       r.val[1][1]).table)

\* The mutant of C13: the collaborative close is treated as the force close
\* is, the trader's open position going to Closing.
CheckCollaborativelyClosed_ClosesPosition(protocol_id, answer, ptbl, postab) ==
    IF answer = None
    THEN CheckReturn("ChannelLookupFailed", ptbl, postab)
    ELSE LET f == finish_dlc_protocol(ptbl, protocol_id)
         IN  CheckReturn(f.res, f.table,
                 set_open_position_to_closing(
                     postab, answer[1].counter_party, None).table)

\* The mutant of C28: the error of finish_dlc_protocol is logged and the
\* check returns Ok.
CheckCollaborativelyClosed_ErrorDropped(protocol_id, answer, ptbl, postab) ==
    IF answer = None
    THEN CheckReturn("ChannelLookupFailed", ptbl, postab)
    ELSE LET f == finish_dlc_protocol(ptbl, protocol_id)
         IN  CheckReturn("Ok", f.table, postab)

CheckCollaborativelyClosed(protocol_id, answer, ptbl, postab) ==
    IF answer = None
    THEN CheckReturn("ChannelLookupFailed", ptbl, postab)
    ELSE LET f == finish_dlc_protocol(ptbl, protocol_id)
         IN  CheckReturn(f.res, f.table, postab)

\* event is [tag, ref]; answer and contract_answer are what the engine's
\* get_dlc_channel_by_reference_id and get_contract_by_id return if asked.
check_for_dlc_channel_closures(event, answer, contract_answer, tbl, ptbl, postab) ==
    IF event.ref = None
    THEN CheckReturn("MissingReferenceId", ptbl, postab)
    ELSE CASE event.tag = "Closing" -> CheckClosing(answer, ptbl, postab)
           [] event.tag \in {"Closed", "CounterClosed"} ->
                CheckClosed(event.ref[1], contract_answer, tbl, ptbl, postab)
           [] event.tag = "CollaborativelyClosed" ->
                CheckCollaborativelyClosed(event.ref[1], answer, ptbl, postab)
           [] OTHER -> CheckReturn("Ok", ptbl, postab)

----------------------------------------------------------------------------
(* The event-consumption task of spawn_watch_dlc_channel_events_task, and  *)
(* the command paths and the trading system around it.                     *)

NoEvent == [tag |-> "-", ref |-> None]

\* The engine while its channel is not followed, and no call of
\* close_dlc_channel under way.
NoEngine == [channel |-> None, reference_id |-> None]
NoClosing == [pc |-> "idle", previous_id |-> None, protocol_id |-> None]

DlcChannelEvents ==
    {[tag |-> t, ref |-> r] :
        t \in DlcChannelEventTags, r \in {None} \cup {Some(p) : p \in ProtocolIds}}

\* The mutant of C2: the handler's error ends the loop.
AfterShadow_ErrorEnds(res) == IF res = "Ok" THEN "check" ELSE "done"

\* The mutant of C37: after an error of shadow_dlc_channel the loop goes on
\* with the next event.
AfterShadow_ErrorSkipsCheck(res) == IF res = "Ok" THEN "check" ELSE "recv"

\* Where the loop goes after shadow_dlc_channel returned res: the error is
\* logged and the closure check runs all the same.
AfterShadow(res) == "check"

\* Where the loop goes after check_for_dlc_channel_closures returned res.
AfterCheck(res) == "recv"

\* The mutant of C3: a lagged receive ends the loop as a closed one does.
AfterRecv_LaggedEnds(outcome) ==
    IF outcome \in {"Closed", "Lagged"} THEN "done" ELSE "recv"

\* Where the loop goes after a receive that delivered no DLC channel event.
AfterRecv(outcome) == IF outcome = "Closed" THEN "done" ELSE "recv"

\* The engine's answers the closure check can get for this event.
CheckAnswers(event) ==
    IF event.ref # None /\ event.tag \in {"Closing", "CollaborativelyClosed"}
    THEN {None} \cup
         {Some(IF event.tag = "Closing" THEN ClosingChannel(id, 1)
               ELSE ClosedChannel("CollaborativelyClosed", id, 1)) : id \in ChannelIds}
    ELSE {None}

CheckContracts(event) ==
    IF event.ref # None /\ event.tag \in {"Closed", "CounterClosed"}
    THEN EngineContracts
    ELSE {None}

ShadowAnswers(event) ==
    IF event.ref # None THEN EngineAnswers(event.tag) ELSE {None}

Init ==
    /\ channels = <<>>
    /\ protocols = <<>>
    /\ positions = [t \in Traders |-> <<>>]
    /\ pc = "recv"
    /\ lastRecv = "-"
    /\ ev = NoEvent
    /\ chan = None
    /\ chanC = None
    /\ contract = None
    /\ shadowRes = "-"
    /\ checkRes = "-"
    /\ delivered = 0
    /\ pnlChannel = 1 /\ pnlCet = Cet(1) /\ pnlResult = "-"
    /\ tierReferrals = <<>> /\ tierTiers = <<>> /\ tierStatus = <<>>
    /\ engine = NoEngine /\ emitted = {} /\ closing = NoClosing /\ closeRes = "-"

\* receiver.recv() returns Ok(NodeEvent::DlcChannelEvent { .. }) with an event
\* whose tag is one of tags
RecvDlcChannelEvent(tags) ==
    /\ pc = "recv"
    /\ delivered < MaxEvents
    /\ \E e \in DlcChannelEvents : e.tag \in tags /\ ev' = e
    /\ pc' = "shadow"
    /\ lastRecv' = "DlcChannelEvent"
    /\ delivered' = delivered + 1
    /\ chan' = None /\ chanC' = None /\ contract' = None
    /\ shadowRes' = "-" /\ checkRes' = "-"
    /\ UNCHANGED <<channels, protocols, positions>>
    /\ UNCHANGED pnlvars
    /\ UNCHANGED lifevars

\* receiver.recv() returns another NodeEvent, Err(Lagged(_)) or Err(Closed)
RecvOther ==
    /\ pc = "recv"
    /\ \E outcome \in {"OtherNodeEvent", "Lagged", "Closed"} :
          /\ lastRecv' = outcome
          /\ pc' = AfterRecv(outcome)
    /\ ev' = NoEvent
    /\ chan' = None /\ chanC' = None /\ contract' = None
    /\ shadowRes' = "-" /\ checkRes' = "-"
    /\ UNCHANGED <<channels, protocols, positions, delivered>>
    /\ UNCHANGED pnlvars
    /\ UNCHANGED lifevars

\* node.shadow_dlc_channel(dlc_channel_event)
Shadow ==
    /\ pc = "shadow"
    /\ \E answer \in ShadowAnswers(ev) :
          LET r == shadow_dlc_channel(ev, answer, channels, protocols)
          IN  /\ chan' = answer
              /\ channels' = r.channels
              /\ protocols' = r.protocols
              /\ shadowRes' = r.res
              /\ pc' = AfterShadow(r.res)
    /\ UNCHANGED <<positions, lastRecv, ev, chanC, contract, checkRes, delivered>>
    /\ UNCHANGED pnlvars
    /\ UNCHANGED lifevars

\* node.check_for_dlc_channel_closures(dlc_channel_event).await
Check ==
    /\ pc = "check"
    /\ \E answer \in CheckAnswers(ev), contract_answer \in CheckContracts(ev) :
          LET r == check_for_dlc_channel_closures(ev, answer, contract_answer,
                                                  channels, protocols, positions)
          IN  /\ chanC' = answer
              /\ contract' = contract_answer
              /\ protocols' = r.protocols
              /\ positions' = r.positions
              /\ checkRes' = r.res
              /\ pc' = AfterCheck(r.res)
    /\ chan' = None
    /\ UNCHANGED <<channels, lastRecv, ev, shadowRes, delivered>>
    /\ UNCHANGED pnlvars
    /\ UNCHANGED lifevars

\* The protocols the command paths start: protocol 1 is the first protocol of
\* channel 1, of any type; every other one follows an earlier protocol and
\* settles or closes, on the channel of its number.
StartableTypes(p) == IF p = 1 THEN DlcProtocolType ELSE {"Settle", "Close"}

ProtocolChannel(p) == IF p \in ChannelIds THEN p ELSE 1

\* A command path starts a protocol (start_dlc_protocol): a new pending row.
StartProtocol ==
    /\ \E p \in ProtocolIds \ DOMAIN protocols : \E t \in StartableTypes(p) :
          LET c == ProtocolChannel(p)
          IN  protocols' = protocols @@
                (p :> PendingDlcProtocol(None, IF t = "Close" THEN None ELSE Some(c), c, t))
    /\ UNCHANGED <<channels, positions, pc, lastRecv, ev, chan, chanC, contract,
                   shadowRes, checkRes, delivered>>
    /\ UNCHANGED pnlvars
    /\ UNCHANGED lifevars

\* The trading system opens a position for a trader who has none open or closing.
TraderOpensPosition ==
    /\ \E t \in Traders :
          /\ Len(positions[t]) < MaxPositions
          /\ \A i \in DOMAIN positions[t] : positions[t][i].state = "Closed"
          /\ positions' = [positions EXCEPT ![t] = Append(@, OpenPosition)]
    /\ UNCHANGED <<channels, protocols, pc, lastRecv, ev, chan, chanC, contract,
                   shadowRes, checkRes, delivered>>
    /\ UNCHANGED pnlvars
    /\ UNCHANGED lifevars

\* The events of a channel's way from its offer to its force close.
OpeningTags == {"Offered", "Established", "Settled", "Closing", "Deleted"}

Next ==
    \/ RecvDlcChannelEvent(OpeningTags)
    \/ RecvOther
    \/ Shadow
    \/ Check
    \/ StartProtocol
    \/ TraderOpensPosition

Spec == Init /\ [][Next]_vars

----------------------------------------------------------------------------
(* The task from the point where channel 1 has been offered and            *)
(* established: the tables are those the two handlers leave after the      *)
(* Offered and the Established event of the channel's OpenChannel          *)
(* protocol.                                                               *)

OpenChannelProtocol == PendingDlcProtocol(None, Some(1), 1, "OpenChannel")

\* The tables after the Offered event of channel 1 has been handled.
OfferedTables ==
    shadow_dlc_channel([tag |-> "Offered", ref |-> Some(1)], Some(OfferedChannel(1)),
                       <<>>, (1 :> OpenChannelProtocol))

\* The tables after the Established event has been handled too, the engine
\* holding version v of the signed channel.
EstablishedTables(v) ==
    shadow_dlc_channel([tag |-> "Established", ref |-> Some(1)],
                       Some(SignedChannel(1, "Established", v)),
                       OfferedTables.channels, OfferedTables.protocols)

InitEstablished ==
    /\ \E v \in Versions :
          /\ channels = EstablishedTables(v).channels
          /\ protocols = EstablishedTables(v).protocols
    /\ positions = [t \in Traders |-> <<>>]
    /\ pc = "recv"
    /\ lastRecv = "-"
    /\ ev = NoEvent
    /\ chan = None
    /\ chanC = None
    /\ contract = None
    /\ shadowRes = "-"
    /\ checkRes = "-"
    /\ delivered = 0
    /\ pnlChannel = 1 /\ pnlCet = Cet(1) /\ pnlResult = "-"
    /\ tierReferrals = <<>> /\ tierTiers = <<>> /\ tierStatus = <<>>
    /\ engine = NoEngine /\ emitted = {} /\ closing = NoClosing /\ closeRes = "-"

\* The events of a channel's close, forced or collaborative.
ClosingTags == {"Closing", "Closed", "CounterClosed", "CollaborativelyClosed"}

NextClose ==
    \/ RecvDlcChannelEvent(ClosingTags)
    \/ RecvOther
    \/ Shadow
    \/ Check
    \/ StartProtocol
    \/ TraderOpensPosition

SpecClose == InitEstablished /\ [][NextClose]_vars

\* The events that end a protocol without a channel, those of the
\* negotiation steps in between, and the offer that starts the shadow row.
QuietTags ==
    {"Offered", "Deleted", "FailedAccept", "FailedSign", "Cancelled"}
    \cup IntermediateTags

NextQuiet ==
    \/ RecvDlcChannelEvent(QuietTags)
    \/ RecvOther
    \/ Shadow
    \/ Check
    \/ StartProtocol
    \/ TraderOpensPosition

SpecQuiet == Init /\ [][NextQuiet]_vars

----------------------------------------------------------------------------
(* The task from the established channel on, receiving the events that     *)
(* end a protocol: the failures, the cancellation, the deletion and the    *)
(* collaborative close.                                                    *)

FinalTags == {"Deleted", "FailedAccept", "FailedSign", "Cancelled", "CollaborativelyClosed"}

NextFinal ==
    \/ RecvDlcChannelEvent(FinalTags)
    \/ RecvOther
    \/ Shadow
    \/ Check
    \/ StartProtocol

SpecFinal == InitEstablished /\ [][NextFinal]_vars

(***************************************************************************)
(* The same task receiving the events of the other ways out of a channel:  *)
(* the force close of a settled channel, the punishment of a revoked state *)
(* and the offer of a collaborative close.                                 *)
(***************************************************************************)

OtherCloseTags == {"SettledClosing", "ClosedPunished", "CollaborativeCloseOffered"}

NextOtherClose ==
    \/ RecvDlcChannelEvent(OtherCloseTags)
    \/ RecvOther
    \/ Shadow
    \/ Check

SpecOtherClose == InitEstablished /\ [][NextOtherClose]_vars

(***************************************************************************)
(* The same task receiving any DLC channel event there is.                 *)
(***************************************************************************)

NextAll ==
    \/ RecvDlcChannelEvent(DlcChannelEventTags)
    \/ RecvOther
    \/ Shadow
    \/ Check

SpecAll == InitEstablished /\ [][NextAll]_vars

----------------------------------------------------------------------------
(* calculate_trader_realized_pnl_from_cet on its own: one call, with the   *)
(* channel table, the channel id and the signed CET drawn from small sets. *)

OutputValues == {1000, 4000, 5000}

\* The signed CETs of up to MaxOutputs outputs.
SignedCets ==
    {[output |-> o] :
        o \in UNION {[1..n -> [value : OutputValues, mine : BOOLEAN]] : n \in 0..MaxOutputs}}

\* The channel tables the calculation reads: the row of channel 1 as the
\* offer left it, or as a balance update left it with one of the trader's
\* balances; channel 2 has no row.
PnlChannelTables ==
    {OfferedTables.channels}
    \cup {update_channel(EstablishedTables(1).channels, 1, OwnBalance(v),
                         CounterBalance(v)).table : v \in Versions}

InitPnl ==
    /\ channels \in PnlChannelTables
    /\ protocols = EstablishedTables(1).protocols
    /\ positions = [t \in Traders |-> <<>>]
    /\ pc = "pnl"
    /\ lastRecv = "-"
    /\ ev = NoEvent
    /\ chan = None
    /\ chanC = None
    /\ contract = None
    /\ shadowRes = "-"
    /\ checkRes = "-"
    /\ delivered = 0
    /\ pnlChannel \in ChannelIds
    /\ pnlCet \in SignedCets
    /\ pnlResult = "-"
    /\ tierReferrals = <<>> /\ tierTiers = <<>> /\ tierStatus = <<>>
    /\ engine = NoEngine /\ emitted = {} /\ closing = NoClosing /\ closeRes = "-"

\* self.calculate_trader_realized_pnl_from_cet(conn, channel_id, signed_cet)
CalculatePnl ==
    /\ pc = "pnl"
    /\ pnlResult' = calculate_trader_realized_pnl_from_cet(channels, pnlChannel, pnlCet)
    /\ pc' = "done"
    /\ UNCHANGED <<channels, protocols, positions, lastRecv, ev, chan, chanC, contract,
                   shadowRes, checkRes, delivered, pnlChannel, pnlCet,
                   tierReferrals, tierTiers, tierStatus>>
    /\ UNCHANGED lifevars

NextPnl == CalculatePnl

SpecPnl == InitPnl /\ [][NextPnl]_vars

----------------------------------------------------------------------------
(* The closure check of one Closed event on its own, the engine's contract *)
(* drawn from a larger set of attestations: the channel is established,    *)
(* its trader's position is Closing, and the event of the channel's        *)
(* OpenChannel protocol has been through shadow_dlc_channel.               *)

\* The outcome strings an attestation is made of: one digit, two digits, and
\* a digit that is none of radix 2.
OutcomeStrings == {<<"0">>, <<"1">>, <<"1", "0">>, <<"2">>}

AttestationsOf(n) == {Attestation(o) : o \in UNION {[1..k -> OutcomeStrings] : k \in 0..n}}

\* The attestation lists: none, one, or one followed by another.
AttestationLists ==
    {<<>>}
    \cup {<<a>> : a \in AttestationsOf(MaxOutcomes)}
    \cup {<<a, b>> : a \in AttestationsOf(MaxOutcomes), b \in AttestationsOf(1)}

PriceContracts ==
    {Some(PreClosedContract(Some(l), Cet(1))) : l \in AttestationLists}
    \cup {Some(ClosedContract(Some(l), Some(Cet(1)))) : l \in AttestationLists}

ClosedEvent == [tag |-> "Closed", ref |-> Some(1)]

InitPrice ==
    /\ \E v \in Versions :
          LET r == shadow_dlc_channel(ClosedEvent, Some(ClosedChannel("Closed", 1, v)),
                                      EstablishedTables(v).channels,
                                      EstablishedTables(v).protocols)
          IN  /\ channels = r.channels
              /\ protocols = r.protocols
              /\ shadowRes = r.res
    /\ positions = [t \in Traders |->
                      IF t = EngineCounterParty(1) THEN <<ClosingPosition(None)>> ELSE <<>>]
    /\ pc = "check"
    /\ lastRecv = "DlcChannelEvent"
    /\ ev = ClosedEvent
    /\ chan = Some(ClosedChannel("Closed", 1, 1))
    /\ chanC = None
    /\ contract = None
    /\ checkRes = "-"
    /\ delivered = 1
    /\ pnlChannel = 1 /\ pnlCet = Cet(1) /\ pnlResult = "-"
    /\ tierReferrals = <<>> /\ tierTiers = <<>> /\ tierStatus = <<>>
    /\ engine = NoEngine /\ emitted = {} /\ closing = NoClosing /\ closeRes = "-"

\* node.check_for_dlc_channel_closures(dlc_channel_event).await, with one of
\* PriceContracts as the engine's contract
CheckPrice ==
    /\ pc = "check"
    /\ \E contract_answer \in PriceContracts :
          LET r == check_for_dlc_channel_closures(ev, None, contract_answer,
                                                  channels, protocols, positions)
          IN  /\ contract' = contract_answer
              /\ protocols' = r.protocols
              /\ positions' = r.positions
              /\ checkRes' = r.res
              /\ pc' = AfterCheck(r.res)
    /\ chan' = None /\ chanC' = None
    /\ UNCHANGED <<channels, lastRecv, ev, shadowRes, delivered>>
    /\ UNCHANGED pnlvars
    /\ UNCHANGED lifevars

NextPrice == CheckPrice

SpecPrice == InitPrice /\ [][NextPrice]_vars

----------------------------------------------------------------------------
(* The task beside the engine's channel 1 over the channel's life, and the *)
(* close command.  The engine keeps the channel and its current reference  *)
(* id; every change of the channel emits an event that carries the         *)
(* reference id of that moment.  The task receives the emitted events in   *)
(* any order and any number of times (late, lagged and re-delivered ones   *)
(* included), and a lookup answers with the channel as the engine holds it *)
(* when the handler asks.                                                  *)

\* The id of the CET that closes a force-closed channel.
CetTxid(v) == 700 + v

\* self.inner.get_dlc_channel_by_reference_id(reference_id)
get_dlc_channel_by_reference_id(eng, reference_id) ==
    IF eng.channel # None /\ eng.reference_id = reference_id THEN eng.channel ELSE None

\* A signed channel after a renewal or a settlement: the balances and the
\* buffer and settle transactions are new, the fund transaction and the
\* collaterals are those of the channel's opening.
Renewed(c, state, v) ==
    [c EXCEPT !.state = state,
              !.own_balance = OwnBalance(v), !.counter_balance = CounterBalance(v),
              !.buffer_transaction = BufferTxid(v),
              !.settle_transaction = SettleTxid(v)]

\* The forms a channel takes on its way out.
ClosingOf(c) ==
    [form |-> "Closing", id |-> c.id, counter_party |-> c.counter_party,
     buffer_transaction |-> c.buffer_transaction]

SettledClosingOf(c) ==
    [form |-> "SettledClosing", id |-> c.id, counter_party |-> c.counter_party,
     settle_transaction |-> c.settle_transaction, claim_transaction |-> ClaimTxid(1)]

ClosedOf(form, c, closing_txid) ==
    [form |-> form, id |-> c.id, counter_party |-> c.counter_party,
     closing_txid |-> closing_txid]

\* The changes the engine can make to channel c, each with the tag of the
\* event it emits.  A closed channel stays as it is.
EngineMoves(c) ==
    LET Move(channel, tag) == [channel |-> channel, tag |-> tag]
        signed == c.form = "Signed"
    IN  (IF signed /\ c.state \in {"Established", "Settled"}
         THEN {Move(Renewed(c, s, v), s) : s \in {"Established", "Settled"}, v \in Versions}
         ELSE {})
        \cup
        (IF signed /\ c.state \in {"Established", "CollaborativeCloseOffered"}
         THEN {Move([c EXCEPT !.state = "Closing"], "Closing"), Move(ClosingOf(c), "Closing")}
         ELSE {})
        \cup
        (IF signed /\ c.state = "Closing" THEN {Move(ClosingOf(c), "Closing")} ELSE {})
        \cup
        (IF signed /\ c.state = "Settled"
         THEN {Move([c EXCEPT !.state = "SettledClosing"], "SettledClosing"),
               Move(SettledClosingOf(c), "SettledClosing")}
         ELSE {})
        \cup
        (IF signed /\ c.state = "SettledClosing"
         THEN {Move(SettledClosingOf(c), "SettledClosing")}
         ELSE {})
        \cup
        (IF c.form \in {"Closing", "SettledClosing"}
         THEN {Move(ClosedOf(f, c, CetTxid(1)), f) : f \in {"Closed", "CounterClosed"}}
         ELSE {})
        \cup
        (IF signed /\ c.state = "CollaborativeCloseOffered"
         THEN {Move(ClosedOf("CollaborativelyClosed", c, c.close_tx),
                    "CollaborativelyClosed")}
         ELSE {})
        \cup
        (IF signed
         THEN {Move([form |-> "ClosedPunished", id |-> c.id,
                     counter_party |-> c.counter_party,
                     punish_txid |-> PunishTxid(1)], "ClosedPunished")}
         ELSE {})

\* The reference ids a change can leave the channel with: the one it has, or
\* with a renewal or settlement the id of a protocol started for the channel.
EngineReferenceIds(eng, tag, ptbl) ==
    {eng.reference_id}
    \cup (IF tag \in {"Established", "Settled"}
          THEN {Some(p) : p \in {q \in DOMAIN ptbl :
                                   /\ ptbl[q].status = "Pending"
                                   /\ ptbl[q].channel_id = eng.channel[1].id}}
          ELSE {})

\* What self.inner.close_dlc_channel(channel_id, is_force_close) does to
\* channel c: None where the engine refuses.
EngineClose(c, is_force_close) ==
    IF c.form = "Signed" /\ c.state \in {"Established", "Settled"}
    THEN IF ~is_force_close
         THEN Some([channel |-> [c EXCEPT !.state = "CollaborativeCloseOffered"],
                    tag |-> "CollaborativeCloseOffered"])
         ELSE IF c.state = "Established"
         THEN Some([channel |-> [c EXCEPT !.state = "Closing"], tag |-> "Closing"])
         ELSE Some([channel |-> [c EXCEPT !.state = "SettledClosing"],
                    tag |-> "SettledClosing"])
    ELSE None

\* start_dlc_protocol: [res, table].
start_dlc_protocol(ptbl, new_id, previous_id, contract_id, channel_id, protocol_type) ==
    IF new_id \in DOMAIN ptbl
    THEN [res |-> "Conflict", table |-> ptbl]
    ELSE [res |-> "Ok",
          table |-> ptbl @@ (new_id :> PendingDlcProtocol(previous_id, contract_id,
                                                          channel_id, protocol_type))]

\* The mutant of C29: the result of start_dlc_protocol is dropped.
close_dlc_channel_start_ResultDropped(ptbl, protocol_id, previous_id, channel) ==
    [res |-> "Ok",
     table |-> start_dlc_protocol(ptbl, protocol_id, previous_id, None, channel.id,
                                  "Close").table]

\* close_dlc_channel from the engine's answer on: the protocol of the close
\* is started, and the call returns what start_dlc_protocol returned.
close_dlc_channel_start(ptbl, protocol_id, previous_id, channel) ==
    start_dlc_protocol(ptbl, protocol_id, previous_id, None, channel.id, "Close")

taskvars ==
    <<pc, lastRecv, ev, chan, chanC, contract, shadowRes, checkRes, delivered>>

InitLife ==
    /\ \E v \in Versions :
          /\ channels = EstablishedTables(v).channels
          /\ protocols = EstablishedTables(v).protocols
          /\ engine = [channel |-> Some(SignedChannel(1, "Established", v)),
                       reference_id |-> Some(1)]
    /\ emitted = {[tag |-> "Offered", ref |-> Some(1)],
                  [tag |-> "Established", ref |-> Some(1)]}
    /\ closing = NoClosing
    /\ closeRes = "-"
    /\ positions = [t \in Traders |->
                      IF t = EngineCounterParty(1) THEN <<OpenPosition>> ELSE <<>>]
    /\ pc = "recv"
    /\ lastRecv = "-"
    /\ ev = NoEvent
    /\ chan = None
    /\ chanC = None
    /\ contract = None
    /\ shadowRes = "-"
    /\ checkRes = "-"
    /\ delivered = 0
    /\ pnlChannel = 1 /\ pnlCet = Cet(1) /\ pnlResult = "-"
    /\ tierReferrals = <<>> /\ tierTiers = <<>> /\ tierStatus = <<>>

\* The engine changes the channel and emits the event of the change.
EngineStep ==
    /\ engine.channel # None
    /\ \E m \in EngineMoves(engine.channel[1]) :
       \E r \in EngineReferenceIds(engine, m.tag, protocols) :
          /\ engine' = [channel |-> Some(m.channel), reference_id |-> r]
          /\ emitted' = emitted \cup {[tag |-> m.tag, ref |-> r]}
    /\ UNCHANGED <<channels, protocols, positions, closing, closeRes>>
    /\ UNCHANGED taskvars
    /\ UNCHANGED pnlvars

\* receiver.recv() returns Ok(NodeEvent::DlcChannelEvent { .. }) with one of
\* the events the engine has emitted
RecvEmitted ==
    /\ pc = "recv"
    /\ delivered < MaxEvents
    /\ \E e \in emitted : ev' = e
    /\ pc' = "shadow"
    /\ lastRecv' = "DlcChannelEvent"
    /\ delivered' = delivered + 1
    /\ chan' = None /\ chanC' = None /\ contract' = None
    /\ shadowRes' = "-" /\ checkRes' = "-"
    /\ UNCHANGED <<channels, protocols, positions>>
    /\ UNCHANGED pnlvars
    /\ UNCHANGED lifevars

\* node.shadow_dlc_channel(dlc_channel_event), the engine answering the
\* lookup with the channel as it holds it
ShadowLife ==
    /\ pc = "shadow"
    /\ LET answer == get_dlc_channel_by_reference_id(engine, ev.ref)
           r == shadow_dlc_channel(ev, answer, channels, protocols)
       IN  /\ chan' = answer
           /\ channels' = r.channels
           /\ protocols' = r.protocols
           /\ shadowRes' = r.res
           /\ pc' = AfterShadow(r.res)
    /\ UNCHANGED <<positions, lastRecv, ev, chanC, contract, checkRes, delivered>>
    /\ UNCHANGED pnlvars
    /\ UNCHANGED lifevars

\* node.check_for_dlc_channel_closures(dlc_channel_event).await, likewise
CheckLife ==
    /\ pc = "check"
    /\ \E contract_answer \in CheckContracts(ev) :
          LET answer == IF ev.tag \in {"Closing", "CollaborativelyClosed"}
                        THEN get_dlc_channel_by_reference_id(engine, ev.ref)
                        ELSE None
              r == check_for_dlc_channel_closures(ev, answer, contract_answer,
                                                  channels, protocols, positions)
          IN  /\ chanC' = answer
              /\ contract' = contract_answer
              /\ protocols' = r.protocols
              /\ positions' = r.positions
              /\ checkRes' = r.res
              /\ pc' = AfterCheck(r.res)
    /\ chan' = None
    /\ UNCHANGED <<channels, lastRecv, ev, shadowRes, delivered>>
    /\ UNCHANGED pnlvars
    /\ UNCHANGED lifevars

\* self.inner.get_dlc_channel_by_id(&channel_id)
get_dlc_channel_by_id(eng, channel_id) ==
    IF eng.channel # None /\ eng.channel[1].id = channel_id THEN eng.channel ELSE None

\* The mutant of C40: the channel's reference id is read after the engine
\* has been told to close, when it is that of the close.
close_dlc_channel_call_PreviousIdAfterClose(eng, channel_id, is_force_close, reference_id) ==
    LET channel == get_dlc_channel_by_id(eng, channel_id)
        failed(res) == [res |-> res, engine |-> eng, event |-> None, closing |-> NoClosing]
    IN  IF channel = None
        THEN failed("ChannelLookupFailed")
        ELSE LET m == EngineClose(channel[1], is_force_close)
             IN  IF m = None
                 THEN failed("EngineError")
                 ELSE [res |-> "-",
                       engine |-> [channel |-> Some(m[1].channel),
                                   reference_id |-> Some(reference_id)],
                       event |-> Some([tag |-> m[1].tag, ref |-> Some(reference_id)]),
                       closing |-> [pc |-> "start", previous_id |-> Some(reference_id),
                                    protocol_id |-> Some(reference_id)]]

\* close_dlc_channel up to the engine's answer: the channel is looked up and
\* its reference id read, the engine is told to close it and answers with
\* reference_id, the reference id of the close, or refuses.  The result is
\* what the call has returned ("-" where it goes on), the engine and the
\* event it has emitted, and what the call goes on with.
close_dlc_channel_call(eng, channel_id, is_force_close, reference_id) ==
    LET channel == get_dlc_channel_by_id(eng, channel_id)
        failed(res) == [res |-> res, engine |-> eng, event |-> None, closing |-> NoClosing]
    IN  IF channel = None
        THEN failed("ChannelLookupFailed")
        ELSE LET previous_id == eng.reference_id
                 m == EngineClose(channel[1], is_force_close)
             IN  IF m = None
                 THEN failed("EngineError")
                 ELSE [res |-> "-",
                       engine |-> [channel |-> Some(m[1].channel),
                                   reference_id |-> Some(reference_id)],
                       event |-> Some([tag |-> m[1].tag, ref |-> Some(reference_id)]),
                       closing |-> [pc |-> "start", previous_id |-> previous_id,
                                    protocol_id |-> Some(reference_id)]]

\* close_dlc_channel(channel_id, is_force_close) up to the engine's answer,
\* called for one of the channels of channel_ids
CloseCallOf(channel_ids) ==
    /\ closing.pc = "idle"
    /\ \E channel_id \in channel_ids, is_force_close \in BOOLEAN,
          reference_id \in ProtocolIds :
          LET r == close_dlc_channel_call(engine, channel_id, is_force_close,
                                          reference_id)
          IN  /\ engine' = r.engine
              /\ emitted' = emitted \cup (IF r.event = None THEN {} ELSE {r.event[1]})
              /\ closing' = r.closing
              /\ closeRes' = r.res
    /\ UNCHANGED <<channels, protocols, positions>>
    /\ UNCHANGED taskvars
    /\ UNCHANGED pnlvars

\* close_dlc_channel called for the channel the engine holds
CloseCall == CloseCallOf(LifecycleChannels)

\* close_dlc_channel from there on
CloseStart ==
    /\ closing.pc = "start"
    /\ LET r == close_dlc_channel_start(protocols, closing.protocol_id[1],
                                        closing.previous_id, engine.channel[1])
       IN  /\ protocols' = r.table
           /\ closeRes' = r.res
    /\ closing' = NoClosing
    /\ UNCHANGED <<channels, positions, engine, emitted>>
    /\ UNCHANGED taskvars
    /\ UNCHANGED pnlvars

NextLife ==
    \/ EngineStep
    \/ RecvEmitted
    \/ RecvOther
    \/ ShadowLife
    \/ CheckLife
    \/ CloseCall
    \/ CloseStart
    \/ StartProtocol

SpecLife == InitLife /\ [][NextLife]_vars

(***************************************************************************)
(* close_dlc_channel on its own, beside the engine: the channel is the     *)
(* established channel 1, with the reference id of its OpenChannel         *)
(* protocol or with none.                                                  *)
(***************************************************************************)

InitCloseChannel ==
    /\ \E v \in Versions, r \in {None, Some(1)} :
          /\ channels = EstablishedTables(v).channels
          /\ protocols = EstablishedTables(v).protocols
          /\ engine = [channel |-> Some(SignedChannel(1, "Established", v)),
                       reference_id |-> r]
          /\ emitted = {[tag |-> "Offered", ref |-> r], [tag |-> "Established", ref |-> r]}
    /\ closing = NoClosing
    /\ closeRes = "-"
    /\ positions = [t \in Traders |->
                      IF t = EngineCounterParty(1) THEN <<OpenPosition>> ELSE <<>>]
    /\ pc = "recv"
    /\ lastRecv = "-"
    /\ ev = NoEvent
    /\ chan = None
    /\ chanC = None
    /\ contract = None
    /\ shadowRes = "-"
    /\ checkRes = "-"
    /\ delivered = 0
    /\ pnlChannel = 1 /\ pnlCet = Cet(1) /\ pnlResult = "-"
    /\ tierReferrals = <<>> /\ tierTiers = <<>> /\ tierStatus = <<>>

NextCloseChannel ==
    \/ EngineStep
    \/ CloseCallOf(ChannelIds)
    \/ CloseStart

SpecCloseChannel == InitCloseChannel /\ [][NextCloseChannel]_vars

(***************************************************************************)
(* The force close of one channel, event by event: the engine takes        *)
(* channel 1 through its offer, its establishing under the OpenChannel     *)
(* protocol, the broadcast of the buffer transaction and the counterparty's *)
(* broadcast of a CET, and the task receives the event of each step before *)
(* the engine takes the next one.                                          *)
(***************************************************************************)

ForceCloseTags == <<"Offered", "Established", "Closing", "CounterClosed">>

\* The forms the engine can hold the channel in at step k of the force close.
ForceCloseChannels(k, eng) ==
    CASE k = 1 -> {OfferedChannel(1)}
      [] k = 2 -> {SignedChannel(1, "Established", v) : v \in Versions}
      [] k = 3 -> {[eng.channel[1] EXCEPT !.state = "Closing"], ClosingOf(eng.channel[1])}
      [] OTHER -> {ClosedOf("CounterClosed", eng.channel[1], CetTxid(v)) : v \in Versions}

InitForceClose ==
    /\ channels = <<>>
    /\ protocols = (1 :> OpenChannelProtocol)
    /\ engine = NoEngine
    /\ emitted = {}
    /\ closing = NoClosing
    /\ closeRes = "-"
    /\ positions = [t \in Traders |->
                      IF t = EngineCounterParty(1) THEN <<OpenPosition>> ELSE <<>>]
    /\ pc = "recv"
    /\ lastRecv = "-"
    /\ ev = NoEvent
    /\ chan = None
    /\ chanC = None
    /\ contract = None
    /\ shadowRes = "-"
    /\ checkRes = "-"
    /\ delivered = 0
    /\ pnlChannel = 1 /\ pnlCet = Cet(1) /\ pnlResult = "-"
    /\ tierReferrals = <<>> /\ tierTiers = <<>> /\ tierStatus = <<>>

\* The engine takes the next step of the force close and receiver.recv()
\* returns the event of it.
RecvForceClose ==
    /\ pc = "recv"
    /\ delivered < Len(ForceCloseTags)
    /\ \E c \in ForceCloseChannels(delivered + 1, engine) :
          engine' = [channel |-> Some(c), reference_id |-> Some(1)]
    /\ ev' = [tag |-> ForceCloseTags[delivered + 1], ref |-> Some(1)]
    /\ emitted' = emitted \cup {ev'}
    /\ pc' = "shadow"
    /\ lastRecv' = "DlcChannelEvent"
    /\ delivered' = delivered + 1
    /\ chan' = None /\ chanC' = None /\ contract' = None
    /\ shadowRes' = "-" /\ checkRes' = "-"
    /\ UNCHANGED <<channels, protocols, positions, closing, closeRes>>
    /\ UNCHANGED pnlvars

NextForceClose ==
    \/ RecvForceClose
    \/ RecvOther
    \/ ShadowLife
    \/ CheckLife

SpecForceClose == InitForceClose /\ [][NextForceClose]_vars

(***************************************************************************)
(* referrals.rs: calculate_referral_tier, a function of the referred users *)
(* of a user and of the active referral tiers.  A referred user is its     *)
(* referred_user_total_quantity, an f32 that is never negative, held here  *)
(* in halves of a unit so that volume.to_i32() has something to cut off.   *)
(* A tier is a row of referral_tiers; the rows differ in their tier_level  *)
(* and in their min_volume_per_referral, and fee_rebate is held in tenths. *)
(***************************************************************************)

MaxTiers == 3
MaxReferrals == 3

TierLevels == 0 .. 2
MinVolumes == 0 .. 2
MinUsers == 0 .. 2
Quantities == {1, 3, 4}

FeeRebate(tier_level) == IF tier_level = 0 THEN 0 ELSE tier_level + 1

ReferralTier(tier_level, min_users_to_refer, min_volume_per_referral) ==
    [tier_level |-> tier_level, min_users_to_refer |-> min_users_to_refer,
     min_volume_per_referral |-> min_volume_per_referral,
     fee_rebate |-> FeeRebate(tier_level)]

\* volume.to_i32(): the fraction is cut off, towards zero.
to_i32(halves) == IF halves >= 0 THEN halves \div 2 ELSE 0 - ((0 - halves) \div 2)

\* Vec::sort_by with b.min_volume_per_referral.cmp(&a.min_volume_per_referral):
\* descending and stable.
RECURSIVE sort_by_min_volume_descending(_)
sort_by_min_volume_descending(tiers) ==
    IF tiers = <<>>
    THEN <<>>
    ELSE LET n == Len(tiers)
             last == tiers[n]
             sorted == sort_by_min_volume_descending(SubSeq(tiers, 1, n - 1))
             before == SelectSeq(sorted, LAMBDA t : t.min_volume_per_referral
                                                      >= last.min_volume_per_referral)
             after == SelectSeq(sorted, LAMBDA t : t.min_volume_per_referral
                                                     < last.min_volume_per_referral)
         IN  before \o <<last>> \o after

\* referral_tiers.iter().find(|tier| volume.to_i32() >= tier.min_volume_per_referral)
RECURSIVE find_tier(_, _)
find_tier(sorted_tiers, volume) ==
    IF sorted_tiers = <<>>
    THEN None
    ELSE IF to_i32(volume) >= Head(sorted_tiers).min_volume_per_referral
    THEN Some(Head(sorted_tiers))
    ELSE find_tier(Tail(sorted_tiers), volume)

\* The mutant of C32: a referred user counts for every tier whose volume it
\* reaches.
RECURSIVE referred_users_sorted_by_tier_Cumulative(_, _)
referred_users_sorted_by_tier_Cumulative(referrals, sorted_tiers) ==
    IF referrals = <<>>
    THEN <<>>
    ELSE LET n == Len(referrals)
             map == referred_users_sorted_by_tier_Cumulative(SubSeq(referrals, 1, n - 1),
                                                             sorted_tiers)
             reached == {sorted_tiers[i].tier_level : i \in
                           {j \in DOMAIN sorted_tiers :
                              to_i32(referrals[n])
                                >= sorted_tiers[j].min_volume_per_referral}}
         IN  [l \in DOMAIN map \cup reached |->
                (IF l \in DOMAIN map THEN map[l] ELSE 0)
                + (IF l \in reached THEN 1 ELSE 0)]

\* The loop over the referrals: the HashMap from tier_level to the number of
\* referred users found for the tier.
RECURSIVE referred_users_sorted_by_tier(_, _)
referred_users_sorted_by_tier(referrals, sorted_tiers) ==
    IF referrals = <<>>
    THEN <<>>
    ELSE LET n == Len(referrals)
             map == referred_users_sorted_by_tier(SubSeq(referrals, 1, n - 1),
                                                  sorted_tiers)
             tier == find_tier(sorted_tiers, referrals[n])
         IN  IF tier = None
             THEN map
             ELSE LET l == tier[1].tier_level
                  IN  [k \in DOMAIN map \cup {l} |->
                         IF k = l
                         THEN (IF l \in DOMAIN map THEN map[l] ELSE 0) + 1
                         ELSE map[k]]

\* The loop over the tiers: the first of the sorted tiers that has an entry
\* in the map of at least min_users_to_refer.
RECURSIVE select_tier(_, _)
select_tier(sorted_tiers, map) ==
    IF sorted_tiers = <<>>
    THEN None
    ELSE LET tier == Head(sorted_tiers)
         IN  IF tier.tier_level \in DOMAIN map
                /\ map[tier.tier_level] >= tier.min_users_to_refer
             THEN Some(tier)
             ELSE select_tier(Tail(sorted_tiers), map)

\* referred_users_sorted_by_tier.values().sum::<i32>()
RECURSIVE SumValues(_)
SumValues(map) ==
    IF DOMAIN map = {}
    THEN 0
    ELSE LET k == CHOOSE k \in DOMAIN map : TRUE
         IN  map[k] + SumValues([j \in DOMAIN map \ {k} |-> map[j]])

\* The mutant of C36: every referred user is counted in the total.
ReferralStatus_AllReferrals(referrals, map, selected_tier) ==
    [number_of_activated_referrals |->
        IF selected_tier = None THEN 0 ELSE map[selected_tier[1].tier_level],
     number_of_total_referrals |-> Len(referrals),
     referral_tier |-> IF selected_tier = None THEN 0 ELSE selected_tier[1].tier_level,
     referral_fee_bonus |-> IF selected_tier = None THEN 0 ELSE selected_tier[1].fee_rebate]

\* Ok(ReferralStatus { .. }), without the referral code
ReferralStatus(referrals, map, selected_tier) ==
    [number_of_activated_referrals |->
        IF selected_tier = None THEN 0 ELSE map[selected_tier[1].tier_level],
     number_of_total_referrals |-> SumValues(map),
     referral_tier |-> IF selected_tier = None THEN 0 ELSE selected_tier[1].tier_level,
     referral_fee_bonus |-> IF selected_tier = None THEN 0 ELSE selected_tier[1].fee_rebate]

calculate_referral_tier(referrals, referral_tiers) ==
    LET sorted_tiers == sort_by_min_volume_descending(referral_tiers)
        map == referred_users_sorted_by_tier(referrals, sorted_tiers)
    IN  ReferralStatus(referrals, map, select_tier(sorted_tiers, map))

\* The sequences of at most n elements of S.
SeqsUpTo(S, n) == UNION {[1 .. k -> S] : k \in 0 .. n}

\* The ways of giving k rows different values of S.
Injections(k, S) ==
    {f \in [1 .. k -> S] : \A i, j \in 1 .. k : i # j => f[i] # f[j]}

\* The rows db::referral_tiers::all_active can return, in any order: at most
\* MaxTiers tiers that differ in their tier_level and in their
\* min_volume_per_referral.
ReferralTiers ==
    UNION {{[i \in 1 .. k |-> ReferralTier(levels[i], users[i], volumes[i])] :
              levels \in Injections(k, TierLevels),
              users \in [1 .. k -> MinUsers],
              volumes \in Injections(k, MinVolumes)} : k \in 0 .. MaxTiers}

InitTier ==
    /\ channels = <<>>
    /\ protocols = <<>>
    /\ positions = [t \in Traders |-> <<>>]
    /\ pc = "tier"
    /\ lastRecv = "-"
    /\ ev = NoEvent
    /\ chan = None
    /\ chanC = None
    /\ contract = None
    /\ shadowRes = "-"
    /\ checkRes = "-"
    /\ delivered = 0
    /\ pnlChannel = 1 /\ pnlCet = Cet(1) /\ pnlResult = "-"
    /\ engine = NoEngine /\ emitted = {} /\ closing = NoClosing /\ closeRes = "-"
    /\ tierReferrals \in SeqsUpTo(Quantities, MaxReferrals)
    /\ tierTiers \in ReferralTiers
    /\ tierStatus = None

\* calculate_referral_tier(referrals, referral_tiers, referral_code)
CalculateReferralTier ==
    /\ pc = "tier"
    /\ tierStatus' = Some(calculate_referral_tier(tierReferrals, tierTiers))
    /\ pc' = "done"
    /\ UNCHANGED <<channels, protocols, positions, lastRecv, ev, chan, chanC, contract,
                   shadowRes, checkRes, delivered, pnlChannel, pnlCet, pnlResult,
                   tierReferrals, tierTiers>>
    /\ UNCHANGED lifevars

NextTier == CalculateReferralTier

SpecTier == InitTier /\ [][NextTier]_vars

----------------------------------------------------------------------------
(* Properties.  A step of a handler is told from the steps around it by    *)
(* the task leaving the handler's place.                                   *)

ShadowStep == pc = "shadow" /\ pc' # "shadow"

CheckStep == pc = "check" /\ pc' # "check"

\* The event being handled has one of these tags and carries a reference id.
Handling(tags) == ev.tag \in tags /\ ev.ref # None

\* C1: an Offered event without a reference id makes shadow_dlc_channel
\* return the missing-reference-id error, and the channel table after the
\* call is the table before it.
C1_OfferedWithoutReferenceId ==
    [][(ShadowStep /\ ev.tag = "Offered" /\ ev.ref = None)
        => (shadowRes' = "MissingReferenceId" /\ channels' = channels)]_vars

C1_Witness ==
    /\ pc = "check" /\ ev.tag = "Offered" /\ ev.ref = None
    /\ shadowRes = "MissingReferenceId"
    /\ DOMAIN channels # {}

\* C2: no failure of a handler and no lagged receive stops the loop: after
\* shadow_dlc_channel, whatever it returned, the closure check runs; after
\* the closure check, whatever it returned, and after a lagged receive, the
\* task is back at the receive, where a delivered event goes to
\* shadow_dlc_channel.
C2_LoopSurvivesFailures ==
    [][/\ (pc = "recv" /\ delivered' # delivered) => pc' = "shadow"
       /\ ShadowStep => pc' = "check"
       /\ CheckStep => pc' = "recv"
       /\ (pc = "recv" /\ lastRecv' \in {"Lagged", "OtherNodeEvent"}) => pc' = "recv"]_vars

C2_Witness ==
    /\ pc = "recv" /\ lastRecv = "DlcChannelEvent"
    /\ shadowRes \notin {"-", "Ok"} /\ checkRes \notin {"-", "Ok"}
    /\ delivered = 2

\* C3: the task ends when the receive reports Closed and only then, and once
\* it has ended no event is received or handled: the channel table and the
\* task's own state stay as they are.
C3_ClosedTerminates ==
    [][/\ (pc = "recv" /\ lastRecv' = "Closed") => pc' = "done"
       /\ (pc # "done" /\ pc' = "done") => (pc = "recv" /\ lastRecv' = "Closed")
       /\ pc = "done" =>
            /\ pc' = "done"
            /\ UNCHANGED <<channels, lastRecv, ev, chan, chanC, contract,
                           shadowRes, checkRes, delivered>>]_vars

C3_Witness ==
    /\ pc = "done" /\ lastRecv = "Closed"
    /\ delivered < MaxEvents
    /\ DOMAIN channels # {}

\* C4: on a Deleted event with a reference id shadow_dlc_channel marks the
\* protocol of that id Failed, touches nothing else and returns Ok, whatever
\* the engine would answer to a lookup of the channel.
C4_DeletedMarksProtocolFailed ==
    [][(ShadowStep /\ Handling({"Deleted"}))
        => LET p == ev.ref[1]
           IN  /\ shadowRes' = "Ok"
               /\ channels' = channels
               /\ DOMAIN protocols' = DOMAIN protocols
               /\ \A q \in DOMAIN protocols :
                     protocols'[q] = IF q = p
                                     THEN [protocols[q] EXCEPT !.status = "Failed"]
                                     ELSE protocols[q]]_vars

C4_Witness ==
    /\ pc = "check" /\ Handling({"Deleted"})
    /\ chan = None
    /\ shadowRes = "Ok"
    /\ ev.ref[1] \in DOMAIN protocols
    /\ protocols[ev.ref[1]].status = "Failed"
    /\ \E q \in DOMAIN protocols : protocols[q].status = "Pending"

\* C5: on an Offered event with a reference id, when the channel the engine
\* answers has no row yet, exactly one row is inserted: it has that channel's
\* id, is Pending and has the channel's counterparty as its trader; every
\* other row stays as it is.
C5_OfferedInsertsPending ==
    [][(ShadowStep /\ Handling({"Offered"}) /\ chan' # None
        /\ chan'[1].id \notin DOMAIN channels)
        => LET c == chan'[1]
           IN  /\ shadowRes' = "Ok"
               /\ DOMAIN channels' = DOMAIN channels \cup {c.id}
               /\ channels'[c.id].channel_state = "Pending"
               /\ channels'[c.id].trader = c.counter_party
               /\ \A d \in DOMAIN channels : channels'[d] = channels[d]]_vars

C5_Witness ==
    /\ pc = "check" /\ Handling({"Offered"}) /\ chan # None
    /\ shadowRes = "Ok"
    /\ DOMAIN channels = ChannelIds
    /\ channels[chan[1].id].channel_state = "Pending"
    /\ channels[chan[1].id].trader = EngineCounterParty(chan[1].id)
    /\ \E d \in DOMAIN channels : channels[d].channel_state = "Open"

\* The engine's answer has the form of a signed channel.
Signed(answer) == answer # None /\ answer[1].form = "Signed"

\* The rows of tbl2 are those of tbl1, the reserves of row id aside.
SameButReserves(tbl1, tbl2, id) ==
    /\ DOMAIN tbl2 = DOMAIN tbl1
    /\ \A d \in DOMAIN tbl1 :
          tbl2[d] = IF d = id
                    THEN [tbl1[d] EXCEPT
                             !.coordinator_reserve_sats = tbl2[d].coordinator_reserve_sats,
                             !.trader_reserve_sats = tbl2[d].trader_reserve_sats]
                    ELSE tbl1[d]

\* C6: on an Established or Settled event of an OpenChannel protocol, with
\* the engine's channel signed, the Pending row of the channel becomes Open
\* and holds the signed channel's funding transaction id, the two usable
\* balances as reserves and the two collaterals as funding amounts.
C6_OpenChannelOpensPending ==
    [][(ShadowStep /\ Handling({"Established", "Settled"}) /\ Signed(chan')
        /\ ev.ref[1] \in DOMAIN protocols
        /\ protocols[ev.ref[1]].protocol_type = "OpenChannel"
        /\ chan'[1].id \in DOMAIN channels
        /\ channels[chan'[1].id].channel_state = "Pending")
        => LET c == chan'[1]
               row == channels'[c.id]
           IN  /\ shadowRes' = "Ok"
               /\ row.channel_state = "Open"
               /\ row.funding_txid = Some(c.fund_tx)
               /\ row.coordinator_reserve_sats = c.own_balance
               /\ row.trader_reserve_sats = c.counter_balance
               /\ row.coordinator_funding_sats = c.own_collateral
               /\ row.trader_funding_sats = c.counter_collateral]_vars

C6_Witness ==
    /\ pc = "check" /\ Handling({"Established", "Settled"}) /\ Signed(chan)
    /\ shadowRes = "Ok"
    /\ ev.ref[1] \in DOMAIN protocols
    /\ protocols[ev.ref[1]].protocol_type = "OpenChannel"
    /\ chan[1].id \in DOMAIN channels
    /\ channels[chan[1].id].channel_state = "Open"
    /\ channels[chan[1].id].funding_txid = Some(chan[1].fund_tx)
    /\ channels[chan[1].id].trader_reserve_sats = chan[1].counter_balance

\* C7: on an Established or Settled event of an OpenPosition, Settle,
\* Rollover or ResizePosition protocol nothing but the two reserves of the
\* channel's row changes, and with the engine's channel signed and the row
\* stored they become the two usable balances; of a Close or ForceClose
\* protocol, no row changes at all.
C7_BalanceUpdateScoping ==
    [][(ShadowStep /\ Handling({"Established", "Settled"}) /\ chan' # None
        /\ ev.ref[1] \in DOMAIN protocols)
        => LET c == chan'[1]
               t == protocols[ev.ref[1]].protocol_type
           IN  /\ t \in {"OpenPosition", "Settle", "Rollover", "ResizePosition"}
                    => /\ SameButReserves(channels, channels', c.id)
                       /\ (c.form = "Signed" /\ c.id \in DOMAIN channels)
                            => /\ shadowRes' = "Ok"
                               /\ channels'[c.id].coordinator_reserve_sats = c.own_balance
                               /\ channels'[c.id].trader_reserve_sats = c.counter_balance
               /\ t \in {"Close", "ForceClose"} => channels' = channels]_vars

C7_Witness ==
    /\ pc = "check" /\ Handling({"Established", "Settled"}) /\ Signed(chan)
    /\ shadowRes = "Ok"
    /\ ev.ref[1] \in DOMAIN protocols
    /\ protocols[ev.ref[1]].protocol_type = "Settle"
    /\ chan[1].id \in DOMAIN channels
    /\ channels[chan[1].id].channel_state = "Open"
    /\ channels[chan[1].id].trader_reserve_sats = chan[1].counter_balance
    /\ channels[chan[1].id].trader_funding_sats # chan[1].counter_collateral

\* C8: on an Established or Settled event with the engine's channel not
\* signed, shadow_dlc_channel returns the unexpected-channel-state error and
\* neither table changes.
C8_UnsignedIsRejected ==
    [][(ShadowStep /\ Handling({"Established", "Settled"}) /\ chan' # None
        /\ chan'[1].form # "Signed")
        => /\ shadowRes' = "UnexpectedChannelState"
           /\ channels' = channels
           /\ protocols' = protocols]_vars

C8_Witness ==
    /\ pc = "check" /\ Handling({"Established", "Settled"}) /\ chan # None
    /\ chan[1].form # "Signed"
    /\ shadowRes = "UnexpectedChannelState"
    /\ chan[1].id \in DOMAIN channels
    /\ ev.ref[1] \in DOMAIN protocols

\* The channel carries a buffer transaction: a signed channel in its Closing
\* state, or a closing channel.
HasBufferTransaction(c) ==
    \/ c.form = "Signed" /\ c.state = "Closing"
    \/ c.form = "Closing"

\* C9: on a Closing event with the engine's channel carrying a buffer
\* transaction, the channel's row gets that transaction's id as buffer_txid
\* and the state Closing; with the channel in any other form the handler
\* returns an error and neither table changes.
C9_ClosingStoresBufferTxid ==
    [][(ShadowStep /\ Handling({"Closing"}) /\ chan' # None)
        => LET c == chan'[1]
           IN  IF HasBufferTransaction(c)
               THEN c.id \in DOMAIN channels
                      => /\ shadowRes' = "Ok"
                         /\ channels'[c.id].buffer_txid = Some(c.buffer_transaction)
                         /\ channels'[c.id].channel_state = "Closing"
               ELSE /\ shadowRes' \notin {"-", "Ok"}
                    /\ channels' = channels
                    /\ protocols' = protocols]_vars

C9_Witness ==
    /\ pc = "check" /\ Handling({"Closing"}) /\ chan # None
    /\ chan[1].form = "Signed"
    /\ shadowRes = "Ok"
    /\ channels[chan[1].id].buffer_txid = Some(chan[1].buffer_transaction)
    /\ channels[chan[1].id].channel_state = "Closing"
    /\ channels[chan[1].id].funding_txid # None

\* C10: on a Closing event the closure check turns every Open position of
\* the channel's trader into a Closing one without a closing price, leaves
\* every other position as it is, and returns Ok also when the trader has no
\* Open position.
C10_ClosingSetsPositionClosing ==
    [][(CheckStep /\ Handling({"Closing"}) /\ chanC' # None)
        => LET trader == chanC'[1].counter_party
           IN  /\ checkRes' = "Ok"
               /\ \A t \in Traders :
                     /\ DOMAIN positions'[t] = DOMAIN positions[t]
                     /\ \A i \in DOMAIN positions[t] :
                           positions'[t][i] =
                               IF t = trader /\ positions[t][i].state = "Open"
                               THEN [state |-> "Closing", closing_price |-> None]
                               ELSE positions[t][i]]_vars

\* The tolerated case: a Closing event for a trader without an Open position.
C10_Witness ==
    /\ pc = "recv" /\ Handling({"Closing"}) /\ chanC # None
    /\ checkRes = "Ok"
    /\ PositionsIn(positions, chanC[1].counter_party, "Closing") = {}
    /\ PositionsIn(positions, chanC[1].counter_party, "Open") = {}
    /\ \E t \in Traders : PositionsIn(positions, t, "Open") # {}

\* The other case: the trader's Open position has become Closing.
C10_WitnessClosing ==
    /\ pc = "recv" /\ Handling({"Closing"}) /\ chanC # None
    /\ checkRes = "Ok"
    /\ positions[chanC[1].counter_party] = <<ClosingPosition(None)>>
    /\ \E t \in Traders : PositionsIn(positions, t, "Open") # {}

\* The events whose handling writes a transaction id to the channel's row.
TxidWritingTags ==
    {"Established", "Settled", "SettledClosing", "Closing", "ClosedPunished",
     "CollaborativeCloseOffered"} \cup ClosedForms

\* C11: with the tables of any state in which the task waits for an event,
\* handling a transaction-id-writing event a second time, the engine
\* answering the same channel, leaves both tables as the first handling left
\* them; so for the Closing event with the same buffer transaction.
C11_RedeliveryIsNoOp ==
    (pc = "recv" /\ ev = NoEvent) =>
    \A t \in TxidWritingTags, p \in ProtocolIds :
       \A answer \in EngineAnswers(t) :
          LET event == [tag |-> t, ref |-> Some(p)]
              once == shadow_dlc_channel(event, answer, channels, protocols)
              twice == shadow_dlc_channel(event, answer, once.channels, once.protocols)
          IN  /\ twice.channels = once.channels
              /\ twice.protocols = once.protocols

\* A Closing event has been handled on a row that held its buffer
\* transaction already.
C11_Witness ==
    /\ pc = "check" /\ Handling({"Closing"}) /\ chan # None
    /\ HasBufferTransaction(chan[1])
    /\ shadowRes = "Ok"
    /\ delivered >= 2
    /\ channels[chan[1].id].buffer_txid = Some(chan[1].buffer_transaction)
    /\ channels[chan[1].id].channel_state = "Closing"
    /\ shadow_dlc_channel(ev, chan, channels, protocols).channels = channels

\* C12: on a Closed, CounterClosed or CollaborativelyClosed event with the
\* engine's channel in one of the closed forms, the channel's row gets the
\* form's closing transaction id as close_txid and the state Closed, every
\* other row staying as it is; with the channel in any other form the
\* handler returns an error and neither table changes.
C12_ClosedStoresCloseTxid ==
    [][(ShadowStep /\ Handling(ClosedForms) /\ chan' # None)
        => LET c == chan'[1]
           IN  IF c.form \in ClosedForms
               THEN c.id \in DOMAIN channels
                      => /\ shadowRes' = "Ok"
                         /\ DOMAIN channels' = DOMAIN channels
                         /\ channels'[c.id] =
                               [channels[c.id] EXCEPT
                                   !.close_txid = Some(c.closing_txid),
                                   !.channel_state = "Closed"]
                         /\ \A d \in DOMAIN channels \ {c.id} : channels'[d] = channels[d]
               ELSE /\ shadowRes' \notin {"-", "Ok"}
                    /\ channels' = channels
                    /\ protocols' = protocols]_vars

C12_Witness ==
    /\ pc = "check" /\ Handling({"CounterClosed"}) /\ chan # None
    /\ chan[1].form = "CounterClosed"
    /\ shadowRes = "Ok"
    /\ channels[chan[1].id].close_txid = Some(chan[1].closing_txid)
    /\ channels[chan[1].id].channel_state = "Closed"
    /\ channels[chan[1].id].buffer_txid # None

\* C13: on a CollaborativelyClosed event the closure check changes no
\* position; with the engine knowing the channel it finishes the protocol of
\* the event's reference id, a Pending one becoming successful and the call
\* returning Ok, and no other protocol changes.
C13_CollaborativelyClosedFinishes ==
    [][(CheckStep /\ Handling({"CollaborativelyClosed"}))
        => LET p == ev.ref[1]
           IN  /\ positions' = positions
               /\ DOMAIN protocols' = DOMAIN protocols
               /\ \A q \in DOMAIN protocols \ {p} : protocols'[q] = protocols[q]
               /\ (chanC' # None /\ p \in DOMAIN protocols
                   /\ protocols[p].status = "Pending")
                    => /\ checkRes' = "Ok"
                       /\ protocols'[p] = [protocols[p] EXCEPT !.status = "Success"]]_vars

C13_Witness ==
    /\ pc = "recv" /\ Handling({"CollaborativelyClosed"}) /\ chanC # None
    /\ checkRes = "Ok"
    /\ protocols[ev.ref[1]].status = "Success"
    /\ PositionsIn(positions, chanC[1].counter_party, "Open") # {}

\* C14: on a FailedAccept or FailedSign event with a reference id the
\* protocol of that id is marked Failed, on a Cancelled event it is marked
\* Cancelled, the engine knowing the channel; the handler returns Ok and
\* every other protocol stays as it is.
C14_FailedAndCancelledMarkProtocol ==
    [][(ShadowStep /\ Handling({"FailedAccept", "FailedSign", "Cancelled"})
        /\ chan' # None)
        => LET p == ev.ref[1]
               status == IF ev.tag = "Cancelled" THEN "Cancelled" ELSE "Failed"
           IN  /\ shadowRes' = "Ok"
               /\ DOMAIN protocols' = DOMAIN protocols
               /\ \A q \in DOMAIN protocols :
                     protocols'[q] = IF q = p
                                     THEN [protocols[q] EXCEPT !.status = status]
                                     ELSE protocols[q]]_vars

C14_Witness ==
    /\ pc = "check" /\ Handling({"Cancelled"}) /\ chan # None
    /\ shadowRes = "Ok"
    /\ ev.ref[1] \in DOMAIN protocols
    /\ protocols[ev.ref[1]].status = "Cancelled"
    /\ \E q \in DOMAIN protocols : protocols[q].status = "Failed"

\* C15: a Deleted, FailedAccept, FailedSign or Cancelled event with a
\* reference id leaves every row of the channel table as it is, and is
\* handled with Ok whether the channel has a row or not: the Deleted event
\* always, the three others whenever the engine knows the channel.
C15_ProtocolOnlyEvents ==
    [][(ShadowStep /\ Handling({"Deleted", "FailedAccept", "FailedSign", "Cancelled"}))
        => /\ channels' = channels
           /\ (ev.tag = "Deleted" \/ chan' # None) => shadowRes' = "Ok"]_vars

\* A FailedSign event has been handled for a protocol whose channel has no
\* row, another channel having one.
C15_Witness ==
    /\ pc = "check" /\ Handling({"FailedSign"}) /\ chan # None
    /\ shadowRes = "Ok"
    /\ ev.ref[1] \in DOMAIN protocols
    /\ protocols[ev.ref[1]].status = "Failed"
    /\ protocols[ev.ref[1]].channel_id = chan[1].id
    /\ chan[1].id \notin DOMAIN channels
    /\ DOMAIN channels # {}

\* What both handlers leave alone when an event has no durable effect.
NoRecordChanges ==
    /\ channels' = channels
    /\ protocols' = protocols
    /\ positions' = positions

\* C16 as claimed: handling an intermediate negotiation event changes no
\* record and neither handler reports a failure, whatever the event carries.
C16_IntermediateNeverFails ==
    [][/\ (ShadowStep /\ ev.tag \in IntermediateTags)
            => (NoRecordChanges /\ shadowRes' = "Ok")
       /\ (CheckStep /\ ev.tag \in IntermediateTags)
            => (NoRecordChanges /\ checkRes' = "Ok")]_vars

\* C16: handling an intermediate negotiation event changes no channel,
\* protocol or position record; shadow_dlc_channel returns Ok when the event
\* carries a reference id and the engine knows its channel, and the closure
\* check returns Ok when the event carries a reference id; without a
\* reference id both return the missing-reference-id error.
C16_IntermediateChangesNothing ==
    [][/\ (ShadowStep /\ ev.tag \in IntermediateTags)
            => /\ NoRecordChanges
               /\ (ev.ref # None /\ chan' # None) => shadowRes' = "Ok"
               /\ ev.ref = None => shadowRes' = "MissingReferenceId"
       /\ (CheckStep /\ ev.tag \in IntermediateTags)
            => /\ NoRecordChanges
               /\ checkRes' = IF ev.ref # None THEN "Ok" ELSE "MissingReferenceId"]_vars

C16_Witness ==
    /\ pc = "recv" /\ Handling(IntermediateTags)
    /\ shadowRes = "Ok" /\ checkRes = "Ok"
    /\ DOMAIN channels # {} /\ DOMAIN protocols # {}
    /\ \E t \in Traders : positions[t] # <<>>

\* The contract has the shape the closure check asks for: PreClosed with its
\* attestations, or Closed with its attestations and its signed CET.
ExpectedContract(c) ==
    \/ c.form = "PreClosed" /\ c.attestations # None
    \/ c.form = "Closed" /\ c.attestations # None /\ c.signed_cet # None

\* The closure check of a Closed or CounterClosed event gets as far as the
\* match on the contract: the protocol is stored with a contract id and its
\* trader has a Closing position.
ReachesContractMatch ==
    /\ ev.ref # None
    /\ ev.ref[1] \in DOMAIN protocols
    /\ protocols[ev.ref[1]].contract_id # None
    /\ PositionsIn(positions, protocols[ev.ref[1]].trader, "Closing") # {}

\* C17: on a Closed or CounterClosed event with the engine's contract in
\* another shape than PreClosed or Closed with attestation and signed CET, or
\* with an empty list of attestations, the closure check returns an error and
\* no position changes; the error is the unexpected-contract-state one when
\* the check gets as far as the match on the contract.
C17_UnexpectedContractState ==
    [][(CheckStep /\ Handling({"Closed", "CounterClosed"}) /\ contract' # None)
        => LET c == contract'[1]
           IN  /\ ~ExpectedContract(c)
                    => /\ checkRes' \notin {"-", "Ok"}
                       /\ positions' = positions
                       /\ ReachesContractMatch => checkRes' = "UnexpectedContractState"
               /\ (ExpectedContract(c) /\ c.attestations[1] = <<>>)
                    => /\ checkRes' \notin {"-", "Ok"}
                       /\ positions' = positions]_vars

C17_Witness ==
    /\ pc = "recv" /\ Handling({"Closed", "CounterClosed"}) /\ contract # None
    /\ contract[1].form = "Closed" /\ contract[1].signed_cet = None
    /\ checkRes = "UnexpectedContractState"
    /\ ReachesContractMatch

\* The price the first attestation of the contract stands for, for the
\* outcomes the engine's contracts carry: 101 is 5 and 110 is 6.
AttestedPrice(c) ==
    LET outcomes == c.attestations[1][1].outcomes
    IN  CASE outcomes = <<Bit1, Bit0, Bit1>> -> Some(5)
          [] outcomes = <<Bit1, Bit1, Bit0>> -> Some(6)
          [] OTHER -> None

\* What the signed CET of the contract pays to the trader: the outputs that
\* are not the coordinator's.
CetTraderPayout(c) ==
    LET signed_cet == IF c.form = "PreClosed" THEN c.signed_cet ELSE c.signed_cet[1]
    IN  IF signed_cet = Cet(1) THEN 5000 ELSE 5800 + 500

\* C18: on a Closed or CounterClosed event with the contract PreClosed or
\* Closed with attestation and signed CET, the Closing position of the
\* protocol's trader becomes Closed with the price the first attestation
\* stands for and with the PnL the trader's payout of the CET minus the
\* trader reserve stored for the protocol's channel; the call returns Ok and
\* every other position stays as it is.
C18_ClosedSetsPnlAndPrice ==
    [][(CheckStep /\ Handling({"Closed", "CounterClosed"}) /\ contract' # None
        /\ ExpectedContract(contract'[1]) /\ contract'[1].attestations[1] # <<>>
        /\ AttestedPrice(contract'[1]) # None
        /\ ReachesContractMatch
        /\ protocols[ev.ref[1]].channel_id \in DOMAIN channels)
        => LET c == contract'[1]
               trader == protocols[ev.ref[1]].trader
               reserve == channels[protocols[ev.ref[1]].channel_id].trader_reserve_sats
               closed == [state |-> "Closed", pnl |-> CetTraderPayout(c) - reserve,
                          closing_price |-> AttestedPrice(c)[1]]
           IN  /\ checkRes' = "Ok"
               /\ \A t \in Traders :
                     /\ DOMAIN positions'[t] = DOMAIN positions[t]
                     /\ \A i \in DOMAIN positions[t] :
                           positions'[t][i] =
                               IF t = trader /\ positions[t][i].state = "Closing"
                               THEN closed ELSE positions[t][i]]_vars

\* The trader of channel 1, whose stored reserve is 4700, has been paid 5000
\* at the price 5.
C18_Witness ==
    /\ pc = "recv" /\ Handling({"CounterClosed"}) /\ contract # None
    /\ checkRes = "Ok"
    /\ 1 \in DOMAIN channels /\ channels[1].trader_reserve_sats = 4700
    /\ positions[EngineCounterParty(1)] =
          <<[state |-> "Closed", pnl |-> 300, closing_price |-> 5]>>

\* The same with a loss: the reserve is 5500 and the payout 5000.
C18_WitnessLoss ==
    /\ pc = "recv" /\ Handling({"Closed"}) /\ contract # None
    /\ checkRes = "Ok"
    /\ 1 \in DOMAIN channels /\ channels[1].trader_reserve_sats = 5500
    /\ positions[EngineCounterParty(1)] =
          <<[state |-> "Closed", pnl |-> -500, closing_price |-> 5]>>

\* The sum of the values of the outputs whose index is in S.
RECURSIVE ValueOf(_, _)
ValueOf(outputs, S) ==
    IF S = {} THEN 0
    ELSE LET i == CHOOSE j \in S : TRUE
         IN  outputs[i].value + ValueOf(outputs, S \ {i})

\* C19: for a channel with a row, calculate_trader_realized_pnl_from_cet
\* returns the sum of the CET's outputs that are not the coordinator's minus
\* the row's trader_reserve_sats, negative when the payout is below the
\* reserve: a payout of 5000 on a reserve of 4700 gives 300, one of 4000
\* gives -700.
C19_RealizedPnl ==
    (pc = "done" /\ pnlChannel \in DOMAIN channels)
    => LET outputs == pnlCet.output
           theirs == {i \in DOMAIN outputs : ~outputs[i].mine}
           reserve == channels[pnlChannel].trader_reserve_sats
           payout == ValueOf(outputs, theirs)
       IN  /\ pnlResult = Some(payout - reserve)
           /\ (payout < reserve) <=> (pnlResult[1] < 0)
           /\ (payout = 5000 /\ reserve = 4700) => pnlResult = Some(300)
           /\ (payout = 4000 /\ reserve = 4700) => pnlResult = Some(-700)

\* A CET with an output of the coordinator's and a payout of 4000 to the
\* trader, on a reserve of 4700.
C19_Witness ==
    /\ pc = "done" /\ pnlChannel \in DOMAIN channels
    /\ channels[pnlChannel].trader_reserve_sats = 4700
    /\ pnlCet.output = <<[value |-> 5000, mine |-> TRUE], [value |-> 4000, mine |-> FALSE]>>
    /\ pnlResult = Some(-700)

\* The gain: two outputs to the trader, 5000 in all, on a reserve of 4700.
C19_WitnessGain ==
    /\ pc = "done" /\ pnlChannel \in DOMAIN channels
    /\ channels[pnlChannel].trader_reserve_sats = 4700
    /\ pnlCet.output = <<[value |-> 1000, mine |-> FALSE], [value |-> 4000, mine |-> FALSE]>>
    /\ pnlResult = Some(300)

\* C20: calculate_trader_realized_pnl_from_cet fails when the channel has no
\* row, and the closure check of a Closed or CounterClosed event that gets to
\* the calculation for such a channel returns that not-found error and
\* changes no position.
C20_MissingChannelRow ==
    [][(CheckStep /\ Handling({"Closed", "CounterClosed"}) /\ contract' # None
        /\ ExpectedContract(contract'[1])
        /\ ReachesContractMatch
        /\ protocols[ev.ref[1]].channel_id \notin DOMAIN channels)
        => /\ calculate_trader_realized_pnl_from_cet(
                  channels, protocols[ev.ref[1]].channel_id, Cet(1)) = None
           /\ checkRes' = "NotFound"
           /\ positions' = positions]_vars

\* The calculation on its own (SpecPnl): no row for the channel id is the
\* error, whatever the CET.
PnlOfMissingRowFails ==
    (pc = "done" /\ pnlChannel \notin DOMAIN channels) => pnlResult = None

\* The closure check has failed for the protocol of a channel without a row,
\* whose trader has a Closing position.
C20_Witness ==
    /\ pc = "recv" /\ Handling({"Closed", "CounterClosed"}) /\ contract # None
    /\ contract[1].form = "PreClosed" /\ contract[1].attestations # None
    /\ ReachesContractMatch
    /\ protocols[ev.ref[1]].channel_id \notin DOMAIN channels
    /\ checkRes = "NotFound"
    /\ positions[protocols[ev.ref[1]].trader] = <<ClosingPosition(None)>>

\* 2 to the power n.
RECURSIVE Pow2(_)
Pow2(n) == IF n = 0 THEN 1 ELSE 2 * Pow2(n - 1)

\* The characters of the outcome strings, one after the other.
RECURSIVE Characters(_)
Characters(outcomes) ==
    IF outcomes = <<>> THEN <<>>
    ELSE Head(outcomes) \o Characters(Tail(outcomes))

\* The number a string of the digits 0 and 1 stands for in base 2: the digit
\* at place i from the right counts 2^i times.
RECURSIVE Base2Value(_, _)
Base2Value(str, S) ==
    IF S = {} THEN 0
    ELSE LET i == CHOOSE j \in S : TRUE
         IN  (IF str[i] = "1" THEN Pow2(Len(str) - i) ELSE 0) + Base2Value(str, S \ {i})

\* C21: the closure check of a Closed event closes the position at the price
\* that the outcome strings of the contract's first attestation, put one
\* after the other, stand for as a base-2 digit string (101 gives 5); it
\* fails, the position staying Closing, when the contract's attestation list
\* is empty, and when the string is empty or has another digit.
C21_ClosingPriceIsBase2 ==
    (pc = "recv" /\ contract # None /\ ExpectedContract(contract[1]))
    => LET attestations == contract[1].attestations[1]
           position == positions[EngineCounterParty(1)]
       IN  IF attestations = <<>>
           THEN checkRes = "NoAttestation" /\ position = <<ClosingPosition(None)>>
           ELSE LET str == Characters(attestations[1].outcomes)
                IN  IF str # <<>> /\ \A i \in DOMAIN str : str[i] \in {"0", "1"}
                    THEN /\ checkRes = "Ok"
                         /\ position[1].state = "Closed"
                         /\ position[1].closing_price = Base2Value(str, DOMAIN str)
                         /\ str = <<"1", "0", "1">> => position[1].closing_price = 5
                    ELSE /\ checkRes = "ParseError"
                         /\ position = <<ClosingPosition(None)>>

\* The outcomes 10 and 1 of the first of two attestations have given 5.
C21_Witness ==
    /\ pc = "recv" /\ contract # None /\ ExpectedContract(contract[1])
    /\ Len(contract[1].attestations[1]) = 2
    /\ contract[1].attestations[1][1].outcomes = <<<<"1", "0">>, <<"1">>>>
    /\ checkRes = "Ok"
    /\ positions[EngineCounterParty(1)][1].closing_price = 5

\* The check has failed on an empty attestation list.
C21_WitnessEmpty ==
    /\ pc = "recv" /\ contract # None /\ ExpectedContract(contract[1])
    /\ contract[1].attestations[1] = <<>>
    /\ checkRes = "NoAttestation"
    /\ positions[EngineCounterParty(1)] = <<ClosingPosition(None)>>

\* C22: a position that is Closed keeps its PnL and its closing price under
\* every later step, and the closure check of a Closed or CounterClosed
\* event delivered for a trader without a Closing position, as the event
\* delivered a second time is, returns an error and changes no position.
C22_ClosedOnce ==
    [][/\ \A t \in Traders : \A i \in DOMAIN positions[t] :
             positions[t][i].state = "Closed"
                => /\ i \in DOMAIN positions'[t]
                   /\ positions'[t][i] = positions[t][i]
       /\ (CheckStep /\ Handling({"Closed", "CounterClosed"})
           /\ ev.ref[1] \in DOMAIN protocols
           /\ PositionsIn(positions, protocols[ev.ref[1]].trader, "Closing") = {})
            => /\ checkRes' \notin {"-", "Ok"}
               /\ positions' = positions]_vars

\* The second delivery: the closure check has found no Closing position,
\* the trader's position being Closed with its PnL, and the contract it was
\* given would have given another PnL.
C22_Witness ==
    /\ pc = "recv" /\ Handling({"Closed", "CounterClosed"})
    /\ checkRes = "NoClosingPosition"
    /\ contract # None /\ ExpectedContract(contract[1])
    /\ ev.ref[1] \in DOMAIN protocols
    /\ LET position == positions[protocols[ev.ref[1]].trader]
       IN  /\ Len(position) = 1
           /\ position[1].state = "Closed"
           /\ position[1].pnl # CetTraderPayout(contract[1])
                                   - channels[protocols[ev.ref[1]].channel_id].trader_reserve_sats

----------------------------------------------------------------------------
(* The transaction ids of a row over the channel's life. *)

TxidFields ==
    {"funding_txid", "close_txid", "settle_txid", "buffer_txid", "claim_txid",
     "punish_txid"}

\* Field f of the row of channel id is set and the step leaves it as it is.
KeepsTxid(id, f) ==
    channels[id][f] # None
        => id \in DOMAIN channels' /\ channels'[id][f] = channels[id][f]

\* C23 as stated: once set, no transaction id field of a row is cleared or
\* overwritten with a different value.
C23_TxidsMonotonic ==
    [][\A id \in DOMAIN channels : \A f \in TxidFields : KeepsTxid(id, f)]_vars

\* C23: funding_txid, settle_txid, buffer_txid, claim_txid and punish_txid
\* are never cleared or overwritten with a different value once set.
\* close_txid is never cleared once set, and is overwritten with a different
\* value only when a Closed, CounterClosed or CollaborativelyClosed event is
\* handled: the id stored for CollaborativeCloseOffered is replaced by the
\* closing transaction id of the closed channel.
C23_TxidsMonotonicButCloseTxid ==
    [][\A id \in DOMAIN channels :
          /\ \A f \in TxidFields \ {"close_txid"} : KeepsTxid(id, f)
          /\ channels[id].close_txid # None
                => /\ id \in DOMAIN channels'
                   /\ channels'[id].close_txid # None
                   /\ channels'[id].close_txid # channels[id].close_txid
                        => /\ ShadowStep /\ Handling(ClosedForms)
                           /\ chan' # None /\ chan'[1].form \in ClosedForms
                           /\ chan'[1].id = id
                           /\ channels'[id].close_txid = Some(chan'[1].closing_txid)]_vars

\* A Closed or CounterClosed event is about to be handled for a channel
\* that was force-closed after its collaborative close had been offered:
\* the row holds the offered close transaction, the engine the CET.
C23_Witness ==
    /\ pc = "shadow" /\ Handling({"Closed", "CounterClosed"})
    /\ get_dlc_channel_by_reference_id(engine, ev.ref) # None
    /\ engine.channel[1].form \in {"Closed", "CounterClosed"}
    /\ 1 \in DOMAIN channels
    /\ channels[1].close_txid # None
    /\ channels[1].close_txid # Some(engine.channel[1].closing_txid)
    /\ channels[1].buffer_txid # None
    /\ channels[1].funding_txid # None

----------------------------------------------------------------------------
(* The terminal states of a row. *)

TerminalChannelStates == {"Closed", "Failed", "Cancelled"}

\* The events that come before the close in a channel's life.
EarlierTags ==
    {"Established", "Settled", "Closing", "SettledClosing", "CollaborativeCloseOffered"}

----------------------------------------------------------------------------
(* The status of a protocol once it is final. *)

Finalized(p) == protocols[p].status # "Pending"

----------------------------------------------------------------------------
----------------------------------------------------------------------------
\* The row of channel id has been opened: every state but Pending comes
\* after Open.
Opened(id) == channels[id].channel_state # "Pending"

\* C27: the funding amounts of a row that has become Open stay as they are
\* in every later step: a re-delivered Established event and a later
\* Established or Settled event of the OpenChannel protocol, which bring new
\* balances, write the same funding amounts again.
C27_FundingImmutable ==
    [][\A id \in DOMAIN channels :
          Opened(id)
            => /\ id \in DOMAIN channels'
               /\ channels'[id].coordinator_funding_sats
                    = channels[id].coordinator_funding_sats
               /\ channels'[id].trader_funding_sats
                    = channels[id].trader_funding_sats]_vars

\* An Established or Settled event of the OpenChannel protocol has been
\* handled for the open channel after the engine renewed it: the row has
\* the new balances, which are not those of its opening, and its funding
\* amounts.
C27_Witness ==
    /\ pc = "check" /\ Handling({"Established", "Settled"})
    /\ shadowRes = "Ok" /\ chan # None
    /\ delivered >= 2
    /\ ev.ref[1] \in DOMAIN protocols
    /\ protocols[ev.ref[1]].protocol_type = "OpenChannel"
    /\ LET row == channels[chan[1].id]
       IN  /\ row.channel_state = "Open"
           /\ row.coordinator_reserve_sats = chan[1].own_balance
           /\ row.coordinator_funding_sats = chan[1].own_collateral
           /\ row.trader_funding_sats = chan[1].counter_collateral
           /\ \E v \in Versions :
                 /\ chan[1].fund_tx = FundTxid(v)
                 /\ chan[1].own_balance # OwnBalance(v)

----------------------------------------------------------------------------
\* C28: the closure check of a CollaborativelyClosed event, the engine
\* knowing the channel, returns NotFound and changes no protocol when the
\* protocol of the event's reference id is not stored, and returns
\* AlreadyFinalized and changes no protocol when that protocol is final
\* already; so of two deliveries of the event the first finalizes the
\* protocol and the second returns the error and leaves the record alone.
C28_SecondFinalizationReported ==
    [][(CheckStep /\ Handling({"CollaborativelyClosed"}) /\ chanC' # None)
        => LET p == ev.ref[1]
           IN  /\ p \notin DOMAIN protocols
                    => checkRes' = "NotFound" /\ protocols' = protocols
               /\ (p \in DOMAIN protocols /\ Finalized(p))
                    => checkRes' = "AlreadyFinalized" /\ protocols' = protocols
               /\ (p \in DOMAIN protocols /\ ~Finalized(p))
                    => /\ checkRes' = "Ok"
                       /\ protocols'[p].status = "Success"
                       /\ finish_dlc_protocol(protocols', p).res = "AlreadyFinalized"]_vars

\* The second delivery of a CollaborativelyClosed event: the closure check
\* has returned AlreadyFinalized for the protocol the first one finalized.
C28_Witness ==
    /\ pc = "recv" /\ Handling({"CollaborativelyClosed"}) /\ chanC # None
    /\ delivered >= 2
    /\ checkRes = "AlreadyFinalized"
    /\ protocols[ev.ref[1]].status = "Success"

\* The closure check has returned NotFound for a protocol that is not stored.
C28_WitnessNotFound ==
    /\ pc = "recv" /\ Handling({"CollaborativelyClosed"}) /\ chanC # None
    /\ checkRes = "NotFound"
    /\ ev.ref[1] \notin DOMAIN protocols

----------------------------------------------------------------------------
(* close_dlc_channel *)

\* The step of close_dlc_channel that starts the protocol and returns.
CloseStartStep == closing.pc = "start" /\ closing'.pc = "idle"

\* C29: close_dlc_channel starts the protocol of the close under the
\* reference id the engine answered with.  When no protocol has that id, a
\* pending Close protocol of the channel and its trader is inserted, with
\* the channel's earlier reference id as its previous id and no contract,
\* and the call returns Ok; when a protocol has that id already, the call
\* returns the Conflict and every protocol is as it was.
C29_StartConflict ==
    [][CloseStartStep
        => LET p == closing.protocol_id[1]
               c == engine.channel[1]
           IN  /\ p \in DOMAIN protocols
                    => closeRes' = "Conflict" /\ protocols' = protocols
               /\ p \notin DOMAIN protocols
                    => /\ closeRes' = "Ok"
                       /\ DOMAIN protocols' = DOMAIN protocols \cup {p}
                       /\ \A q \in DOMAIN protocols : protocols'[q] = protocols[q]
                       /\ protocols'[p] =
                            [previous_protocol_id |-> closing.previous_id,
                             contract_id |-> None, channel_id |-> c.id,
                             trader |-> c.counter_party,
                             protocol_type |-> "Close", status |-> "Pending"]]_vars

\* close_dlc_channel has returned the Conflict: the engine answered with the
\* id of the channel's OpenChannel protocol, which is as it was.
C29_Witness ==
    /\ closing.pc = "idle" /\ closeRes = "Conflict"
    /\ \E p \in DOMAIN protocols :
          /\ engine.reference_id = Some(p)
          /\ protocols[p] = OpenChannelProtocol
    /\ \A p \in DOMAIN protocols : protocols[p].protocol_type # "Close"

\* close_dlc_channel has returned Ok: the protocol of the close is pending.
C29_WitnessStarted ==
    /\ closing.pc = "idle" /\ closeRes = "Ok"
    /\ \E p \in DOMAIN protocols :
          /\ engine.reference_id = Some(p)
          /\ protocols[p].protocol_type = "Close"
          /\ protocols[p].previous_protocol_id = Some(1)

----------------------------------------------------------------------------
\* The events whose handling looks up or finalizes the owning protocol.
OwningTags == {"Established", "Settled", "Closed", "CounterClosed", "CollaborativelyClosed"}

\* C30: while the task handles an Established, Settled, Closed,
\* CounterClosed or CollaborativelyClosed event, a protocol with the event's
\* reference id is stored, however the steps of close_dlc_channel fall
\* between the steps of the task.
C30_ReferenceIdResolves ==
    (pc \in {"shadow", "check"} /\ Handling(OwningTags))
        => ev.ref[1] \in DOMAIN protocols

\* Where C30 fails: the event is one of the close that close_dlc_channel
\* has asked the engine for and whose protocol it has not started yet.
C30_OnlyBeforeStart ==
    ~C30_ReferenceIdResolves
        => closing.pc = "start" /\ closing.protocol_id = ev.ref

----------------------------------------------------------------------------
\* shadow_dlc_channel has handled the event of step k of the force close.
ShadowDone(k) == delivered > k \/ (delivered = k /\ pc # "shadow")

\* check_for_dlc_channel_closures has handled it too.
CheckDone(k) == delivered > k \/ (delivered = k /\ pc \notin {"shadow", "check"})

\* The position of the trader of channel 1.
TraderPosition == positions[EngineCounterParty(1)][1]

\* The closure check of the last step has just returned, the engine having
\* answered with a contract the position can be closed from.
ClosedFromContract ==
    /\ delivered = Len(ForceCloseTags)
    /\ pc = "recv"
    /\ lastRecv = "DlcChannelEvent"
    /\ contract # None
    /\ ExpectedContract(contract[1])
    /\ contract[1].attestations[1] # <<>>
    /\ AttestedPrice(contract[1]) # None

\* C31: Offered, Established under the OpenChannel protocol, Closing and
\* CounterClosed delivered in that order for one channel take its row
\* through Pending, Open, Closing and Closed and the trader's position
\* through Open, Closing and Closed; funding_txid is set from the second
\* step on, buffer_txid from the third and close_txid from the fourth, each
\* not before; the position carries a realized PnL only once the closure
\* check of the last step has run, and it is then the trader's payout of the
\* CET minus the trader reserve of the row.
C31_ForceCloseLifecycle ==
    /\ ~ShadowDone(1) => channels = <<>>
    /\ ShadowDone(1) =>
         /\ DOMAIN channels = {1}
         /\ channels[1].channel_state =
              (CASE ~ShadowDone(2) -> "Pending"
                 [] ShadowDone(2) /\ ~ShadowDone(3) -> "Open"
                 [] ShadowDone(3) /\ ~ShadowDone(4) -> "Closing"
                 [] OTHER -> "Closed")
         /\ channels[1].funding_txid # None <=> ShadowDone(2)
         /\ channels[1].buffer_txid # None <=> ShadowDone(3)
         /\ channels[1].close_txid # None <=> ShadowDone(4)
         /\ ShadowDone(4) => channels[1].close_txid = Some(engine.channel[1].closing_txid)
         /\ \A f \in {"settle_txid", "claim_txid", "punish_txid"} : channels[1][f] = None
    /\ Len(positions[EngineCounterParty(1)]) = 1
    /\ ~CheckDone(3) => TraderPosition = OpenPosition
    /\ CheckDone(3) /\ ~CheckDone(4) => TraderPosition = ClosingPosition(None)
    /\ TraderPosition.state = "Closed" => CheckDone(4)
    /\ CheckDone(4) => TraderPosition.state \in {"Closing", "Closed"}
    /\ ClosedFromContract =>
         TraderPosition =
            ClosedPosition(CetTraderPayout(contract[1]) - channels[1].trader_reserve_sats,
                           AttestedPrice(contract[1])[1])

\* The four events have been handled: the row is Closed with its three
\* transaction ids and the position is Closed with a PnL.
C31_Witness ==
    /\ ClosedFromContract
    /\ channels[1].channel_state = "Closed"
    /\ channels[1].funding_txid # None
    /\ channels[1].buffer_txid # None
    /\ channels[1].close_txid = Some(CetTxid(2))
    /\ TraderPosition.state = "Closed"
    /\ TraderPosition.pnl # 0

----------------------------------------------------------------------------
\* The indices of the tiers in S with the highest min_volume_per_referral.
Highest(tiers, S) ==
    {i \in S : \A j \in S : tiers[j].min_volume_per_referral
                              <= tiers[i].min_volume_per_referral}

\* The tiers whose min_volume_per_referral does not exceed a volume, the
\* volume in halves.
TiersWithin(tiers, halves) ==
    {i \in DOMAIN tiers : 2 * tiers[i].min_volume_per_referral <= halves}

\* The referred users assigned to tier i: those for which it is the tier
\* with the highest min_volume_per_referral not exceeding their volume.
AssignedUsers(tiers, referrals, i) ==
    {u \in DOMAIN referrals : i \in Highest(tiers, TiersWithin(tiers, referrals[u]))}

\* The tiers with as many assigned users as their min_users_to_refer.
TiersWithEnoughUsers(tiers, referrals) ==
    {i \in DOMAIN tiers :
        Cardinality(AssignedUsers(tiers, referrals, i)) >= tiers[i].min_users_to_refer}

\* The tiers with an assigned user.
TiersWithUsers(tiers, referrals) ==
    {i \in DOMAIN tiers : AssignedUsers(tiers, referrals, i) # {}}

\* The status names the tier of the highest min_volume_per_referral in S:
\* its level and its fee rebate, or level 0 and bonus 0 where S is empty.
StatusNames(status, tiers, S) ==
    IF S = {}
    THEN status.referral_tier = 0 /\ status.referral_fee_bonus = 0
    ELSE \A i \in Highest(tiers, S) :
            /\ status.referral_tier = tiers[i].tier_level
            /\ status.referral_fee_bonus = tiers[i].fee_rebate

TierDone == pc = "done" /\ tierStatus # None

\* C32 as stated: the selected tier is the one with the highest
\* min_volume_per_referral among the tiers whose number of assigned users is
\* at least their min_users_to_refer, a referred user being assigned to the
\* one tier with the highest min_volume_per_referral not exceeding its
\* volume; without referred users the result is tier 0 with bonus 0.
C32_HighestReachedTier ==
    TierDone =>
        /\ StatusNames(tierStatus[1], tierTiers,
                       TiersWithEnoughUsers(tierTiers, tierReferrals))
        /\ tierReferrals = <<>> =>
              tierStatus[1].referral_tier = 0 /\ tierStatus[1].referral_fee_bonus = 0

\* C32, amended: the selected tier is the one with the highest
\* min_volume_per_referral among the tiers that have an assigned user and
\* whose number of assigned users is at least their min_users_to_refer; a
\* user assigned to a higher tier counts for that tier alone; without
\* referred users, or with no such tier, the result is tier 0 with bonus 0.
C32_HighestReachedTierWithUsers ==
    TierDone =>
        /\ StatusNames(tierStatus[1], tierTiers,
                       TiersWithEnoughUsers(tierTiers, tierReferrals)
                         \cap TiersWithUsers(tierTiers, tierReferrals))
        /\ tierReferrals = <<>> =>
              tierStatus[1].referral_tier = 0 /\ tierStatus[1].referral_fee_bonus = 0

\* The middle one of three tiers is selected: a referred user sits in the
\* higher tier, which is not reached, and the lower tier has one user where
\* it wants two, the users of the tiers above not counting for it.
C32_Witness ==
    /\ TierDone
    /\ \E i, j \in DOMAIN tierTiers :
          /\ tierStatus[1].referral_tier = tierTiers[i].tier_level
          /\ i \in TiersWithEnoughUsers(tierTiers, tierReferrals)
          /\ tierTiers[j].min_volume_per_referral > tierTiers[i].min_volume_per_referral
          /\ AssignedUsers(tierTiers, tierReferrals, j) # {}
          /\ j \notin TiersWithEnoughUsers(tierTiers, tierReferrals)
          /\ \E k \in DOMAIN tierTiers :
                /\ tierTiers[k].min_volume_per_referral
                     < tierTiers[i].min_volume_per_referral
                /\ Cardinality(AssignedUsers(tierTiers, tierReferrals, k)) = 1
                /\ tierTiers[k].min_users_to_refer = 2

----------------------------------------------------------------------------
\* The tiers calculate_referral_tier selects from: those with an assigned
\* user and as many assigned users as their min_users_to_refer.
SelectableTiers ==
    TiersWithEnoughUsers(tierTiers, tierReferrals)
      \cap TiersWithUsers(tierTiers, tierReferrals)

\* The referred users whose volume reaches the min_volume_per_referral of at
\* least one tier.
UsersWithinSomeTier ==
    {u \in DOMAIN tierReferrals : TiersWithin(tierTiers, tierReferrals[u]) # {}}

\* C36: in the result of calculate_referral_tier number_of_total_referrals
\* is the number of referred users whose volume reaches the
\* min_volume_per_referral of at least one tier,
\* number_of_activated_referrals is the number of users assigned to the
\* selected tier, 0 when no tier is selected, and it never exceeds
\* number_of_total_referrals.
C36_ReferralCounts ==
    TierDone =>
        /\ tierStatus[1].number_of_total_referrals = Cardinality(UsersWithinSomeTier)
        /\ tierStatus[1].number_of_activated_referrals =
              (IF SelectableTiers = {}
               THEN 0
               ELSE Cardinality(AssignedUsers(tierTiers, tierReferrals,
                                              CHOOSE i \in Highest(tierTiers,
                                                                   SelectableTiers) : TRUE)))
        /\ tierStatus[1].number_of_activated_referrals
             <= tierStatus[1].number_of_total_referrals

\* Of three referred users one reaches no tier and two reach one, one of
\* them the selected tier: one activated referral of two.
C36_Witness ==
    /\ TierDone
    /\ Len(tierReferrals) = 3
    /\ SelectableTiers # {}
    /\ tierStatus[1].number_of_activated_referrals = 1
    /\ tierStatus[1].number_of_total_referrals = 2

----------------------------------------------------------------------------
\* Every row but that of channel id is as it was.
OtherRowsKept(id) ==
    /\ DOMAIN channels' = DOMAIN channels
    /\ \A other \in DOMAIN channels \ {id} : channels'[other] = channels[other]

\* The handler has returned an error and written nothing.
ShadowFailedWithoutWrite ==
    /\ shadowRes' \notin {"-", "Ok"}
    /\ channels' = channels
    /\ protocols' = protocols

\* C33: on a SettledClosing event the channel's row gets the id of the
\* engine channel's settle transaction as settle_txid; claim_txid becomes
\* the id of the claim transaction when the engine holds a settled-closing
\* channel and stays as it is when the engine holds a signed channel in its
\* SettledClosing state; with the channel in any other form the handler
\* returns an error and neither table changes.
C33_SettledClosingStoresSettleTxid ==
    [][(ShadowStep /\ Handling({"SettledClosing"}) /\ chan' # None)
        => LET c == chan'[1]
               settled_closing == c.form = "SettledClosing"
               signed == c.form = "Signed" /\ c.state = "SettledClosing"
           IN  IF settled_closing \/ signed
               THEN c.id \in DOMAIN channels
                      => /\ shadowRes' = "Ok"
                         /\ channels'[c.id].settle_txid = Some(c.settle_transaction)
                         /\ channels'[c.id].claim_txid =
                               (IF settled_closing THEN Some(c.claim_transaction)
                                ELSE channels[c.id].claim_txid)
                         /\ OtherRowsKept(c.id)
                         /\ protocols' = protocols
               ELSE ShadowFailedWithoutWrite]_vars

\* The signed channel in its SettledClosing state has left its settle
\* transaction and no claim transaction in the row.
C33_Witness ==
    /\ pc = "check" /\ Handling({"SettledClosing"}) /\ chan # None
    /\ chan[1].form = "Signed"
    /\ shadowRes = "Ok"
    /\ channels[chan[1].id].settle_txid = Some(chan[1].settle_transaction)
    /\ channels[chan[1].id].claim_txid = None

\* The settled-closing channel has left both.
C33_WitnessClaim ==
    /\ pc = "check" /\ Handling({"SettledClosing"}) /\ chan # None
    /\ chan[1].form = "SettledClosing"
    /\ shadowRes = "Ok"
    /\ channels[chan[1].id].settle_txid = Some(chan[1].settle_transaction)
    /\ channels[chan[1].id].claim_txid = Some(chan[1].claim_transaction)

\* C34: on a ClosedPunished event with the engine holding a closed-punished
\* channel the channel's row gets the id of the punish transaction as
\* punish_txid and the state Closed; with the channel in any other form the
\* handler returns an error and neither table changes.
C34_ClosedPunishedStoresPunishTxid ==
    [][(ShadowStep /\ Handling({"ClosedPunished"}) /\ chan' # None)
        => LET c == chan'[1]
           IN  IF c.form = "ClosedPunished"
               THEN c.id \in DOMAIN channels
                      => /\ shadowRes' = "Ok"
                         /\ channels'[c.id].punish_txid = Some(c.punish_txid)
                         /\ channels'[c.id].channel_state = "Closed"
                         /\ OtherRowsKept(c.id)
                         /\ protocols' = protocols
               ELSE ShadowFailedWithoutWrite]_vars

C34_Witness ==
    /\ pc = "check" /\ Handling({"ClosedPunished"}) /\ chan # None
    /\ chan[1].form = "ClosedPunished"
    /\ shadowRes = "Ok"
    /\ channels[chan[1].id].punish_txid = Some(chan[1].punish_txid)
    /\ channels[chan[1].id].channel_state = "Closed"

\* C35: on a CollaborativeCloseOffered event with the engine holding a
\* signed channel in its CollaborativeCloseOffered state the channel's row
\* gets the id of the offered close transaction as close_txid and is not set
\* to Closed by it; with the channel in any other form the handler returns
\* an error and neither table changes.
C35_CloseOfferedStoresCloseTxid ==
    [][(ShadowStep /\ Handling({"CollaborativeCloseOffered"}) /\ chan' # None)
        => LET c == chan'[1]
           IN  IF c.form = "Signed" /\ c.state = "CollaborativeCloseOffered"
               THEN c.id \in DOMAIN channels
                      => /\ shadowRes' = "Ok"
                         /\ channels'[c.id].close_txid = Some(c.close_tx)
                         /\ channels'[c.id].channel_state # "Closed"
                         /\ OtherRowsKept(c.id)
                         /\ protocols' = protocols
               ELSE ShadowFailedWithoutWrite]_vars

C35_Witness ==
    /\ pc = "check" /\ Handling({"CollaborativeCloseOffered"}) /\ chan # None
    /\ chan[1].form = "Signed" /\ chan[1].state = "CollaborativeCloseOffered"
    /\ shadowRes = "Ok"
    /\ channels[chan[1].id].close_txid = Some(chan[1].close_tx)
    /\ channels[chan[1].id].channel_state = "Closing"

----------------------------------------------------------------------------
\* C37: for every DLC channel event received the loop calls
\* shadow_dlc_channel first and check_for_dlc_channel_closures after it, for
\* the same event and whatever shadow_dlc_channel returned, an error
\* included; the closure check is called from nowhere else, and it is after
\* it that the loop receives again.
C37_ShadowThenCheck ==
    [][/\ (pc = "recv" /\ lastRecv' = "DlcChannelEvent" /\ ev' # NoEvent /\ delivered' # delivered)
            => pc' = "shadow" /\ shadowRes' = "-" /\ checkRes' = "-"
       /\ ShadowStep => pc' = "check" /\ ev' = ev /\ shadowRes' # "-" /\ checkRes' = "-"
       /\ (pc # "check" /\ pc' = "check") => pc = "shadow"
       /\ CheckStep => pc' = "recv" /\ ev' = ev /\ shadowRes' = shadowRes
                       /\ checkRes' # "-"]_vars

\* A Closing event whose channel write failed, the engine's channel having
\* been in no closing form, has set the trader's position to Closing.
C37_Witness ==
    /\ pc = "recv" /\ lastRecv = "DlcChannelEvent" /\ Handling({"Closing"})
    /\ shadowRes \notin {"-", "Ok"}
    /\ checkRes = "Ok"
    /\ chanC # None
    /\ channels[1].channel_state = "Open"
    /\ PositionsIn(positions, chanC[1].counter_party, "Closing") # {}

\* A Closed or CounterClosed event whose channel write failed has closed the
\* trader's position.
C37_WitnessClosed ==
    /\ pc = "recv" /\ lastRecv = "DlcChannelEvent" /\ Handling({"Closed", "CounterClosed"})
    /\ shadowRes \notin {"-", "Ok"}
    /\ checkRes = "Ok"
    /\ channels[1].channel_state # "Closed"
    /\ PositionsIn(positions, EngineCounterParty(1), "Closed") # {}

----------------------------------------------------------------------------
\* C38: on a Closed or CounterClosed event whose protocol is stored, the
\* closure check returns the error of the missing contract id when the
\* protocol has none, the error of the missing contract when the engine has
\* no contract for it, and the error of the missing position when the
\* protocol's trader has no Closing position; each of them comes before the
\* contract is looked into for the price and the PnL, whatever the contract
\* is, and no position changes.
C38_ClosedPreconditions ==
    [][(CheckStep /\ Handling({"Closed", "CounterClosed"})
        /\ ev.ref[1] \in DOMAIN protocols)
        => LET p == protocols[ev.ref[1]]
               error == CASE p.contract_id = None -> "MissingContractId"
                          [] contract' = None -> "MissingContract"
                          [] PositionsIn(positions, p.trader, "Closing") = {} ->
                               "NoClosingPosition"
                          [] OTHER -> "-"
           IN  error # "-" => /\ checkRes' = error
                              /\ positions' = positions
                              /\ protocols' = protocols]_vars

\* The trader has no Closing position and the contract is one nothing could
\* be computed from: the error is that of the position.
C38_Witness ==
    /\ pc = "recv" /\ lastRecv = "DlcChannelEvent"
    /\ Handling({"Closed", "CounterClosed"})
    /\ checkRes = "NoClosingPosition"
    /\ contract # None /\ ~ExpectedContract(contract[1])
    /\ PositionsIn(positions, EngineCounterParty(1), "Open") # {}

C38_WitnessNoContractId ==
    /\ pc = "recv" /\ lastRecv = "DlcChannelEvent"
    /\ Handling({"Closed", "CounterClosed"})
    /\ checkRes = "MissingContractId"
    /\ PositionsIn(positions, protocols[ev.ref[1]].trader, "Closing") # {}

C38_WitnessNoContract ==
    /\ pc = "recv" /\ lastRecv = "DlcChannelEvent"
    /\ Handling({"Closed", "CounterClosed"})
    /\ checkRes = "MissingContract"
    /\ PositionsIn(positions, protocols[ev.ref[1]].trader, "Closing") # {}

----------------------------------------------------------------------------
\* C39: for every event but Deleted that carries a reference id,
\* shadow_dlc_channel returns an error and writes nothing when the engine's
\* lookup of the channel by that reference id fails, whatever the event is,
\* the failed, cancelled and intermediate ones included; an event without a
\* reference id, Deleted included, fails in shadow_dlc_channel and in
\* check_for_dlc_channel_closures, and neither of them writes anything.
C39_LookupBeforeDispatch ==
    [][/\ (ShadowStep /\ ev.ref # None /\ ev.tag # "Deleted" /\ chan' = None)
            => ShadowFailedWithoutWrite /\ positions' = positions
       /\ (ShadowStep /\ ev.ref = None)
            => ShadowFailedWithoutWrite /\ positions' = positions
       /\ (CheckStep /\ ev.ref = None)
            => checkRes' \notin {"-", "Ok"} /\ NoRecordChanges]_vars

\* A Cancelled event whose channel the engine did not find: the handler has
\* failed and the event's protocol is pending as before.
C39_Witness ==
    /\ pc = "check" /\ ev.tag = "Cancelled" /\ ev.ref # None
    /\ chan = None
    /\ shadowRes \notin {"-", "Ok"}
    /\ ev.ref[1] \in DOMAIN protocols
    /\ protocols[ev.ref[1]].status = "Pending"

\* An intermediate event likewise.
C39_WitnessIntermediate ==
    /\ pc = "check" /\ ev.tag \in IntermediateTags /\ ev.ref # None
    /\ chan = None
    /\ shadowRes \notin {"-", "Ok"}

\* An event without reference id has failed in both handlers.
C39_WitnessWithoutReferenceId ==
    /\ pc = "recv" /\ lastRecv = "DlcChannelEvent"
    /\ ev.tag \in DlcChannelEventTags /\ ev.ref = None
    /\ shadowRes \notin {"-", "Ok"}
    /\ checkRes \notin {"-", "Ok"}

----------------------------------------------------------------------------
\* The events the engine emits for a close it has been told.
CloseCommandTags == {"CollaborativeCloseOffered", "Closing", "SettledClosing"}

\* The engine has been told the close of reference id r and has answered.
CloseIssuedIn(events, r) == \E e \in events : e.ref = r /\ e.tag \in CloseCommandTags

CloseIssued(r) == CloseIssuedIn(emitted, r)

\* A step in which close_dlc_channel returns before it has an answer of the
\* engine to go on with (a call that fails as the one before it did leaves
\* every variable as it is).
CloseCallFails ==
    /\ closing.pc = "idle" /\ closing'.pc = "idle"
    /\ closeRes' \in {"ChannelLookupFailed", "EngineError"}
    /\ closeRes' # closeRes

\* C40: close_dlc_channel stores the protocol of the close only once the
\* engine has answered the close command with a reference id.  The call
\* goes on to the insert with that reference id as the new protocol's id and
\* with the reference id the channel had before the close, none where it had
\* none, as its previous id, the engine having been told; the record
\* inserted has that id, that previous_protocol_id and no contract id.  When
\* the lookup of the channel or the close command fails, the engine and the
\* protocols are as they were and no insert follows; when the insert fails,
\* the protocols are as they were and the engine has been told the close.
C40_CloseProtocolAfterEngineClose ==
    [][/\ (closing.pc = "idle" /\ closing'.pc = "start")
            => /\ closing'.protocol_id = engine'.reference_id
               /\ closing'.protocol_id # None
               /\ closing'.previous_id = engine.reference_id
               /\ CloseIssuedIn(emitted', closing'.protocol_id)
               /\ ~CloseIssued(closing'.protocol_id) => engine' # engine
               /\ protocols' = protocols
       /\ CloseCallFails
            => /\ protocols' = protocols
               /\ engine' = engine
               /\ emitted' = emitted
       /\ protocols' # protocols
            => /\ CloseStartStep
               /\ closeRes' = "Ok"
               /\ CloseIssued(closing.protocol_id)
               /\ LET p == closing.protocol_id[1]
                  IN  /\ DOMAIN protocols' = DOMAIN protocols \cup {p}
                      /\ p \notin DOMAIN protocols
                      /\ \A q \in DOMAIN protocols : protocols'[q] = protocols[q]
                      /\ protocols'[p].protocol_type = "Close"
                      /\ protocols'[p].previous_protocol_id = closing.previous_id
                      /\ protocols'[p].contract_id = None
       /\ (CloseStartStep /\ closeRes' # "Ok")
            => /\ protocols' = protocols
               /\ CloseIssued(closing.protocol_id)
               /\ engine' = engine]_vars

\* The close of a channel without reference id has been stored under the
\* reference id the engine gave it, without a previous protocol.
C40_Witness ==
    /\ closing.pc = "idle" /\ closeRes = "Ok"
    /\ 2 \in DOMAIN protocols
    /\ protocols[2].protocol_type = "Close"
    /\ protocols[2].previous_protocol_id = None
    /\ protocols[2].contract_id = None
    /\ CloseIssued(Some(2))

\* The close of a channel with the reference id of its OpenChannel protocol.
C40_WitnessPrevious ==
    /\ closing.pc = "idle" /\ closeRes = "Ok"
    /\ 2 \in DOMAIN protocols
    /\ protocols[2].protocol_type = "Close"
    /\ protocols[2].previous_protocol_id = Some(1)

\* The insert has failed and the engine is closing the channel.
C40_WitnessInsertFailed ==
    /\ closing.pc = "idle" /\ closeRes = "Conflict"
    /\ CloseIssued(Some(1))
    /\ \A p \in DOMAIN protocols : protocols[p].protocol_type # "Close"

\* The lookup of the channel has failed.
C40_WitnessLookupFailed ==
    /\ closeRes = "ChannelLookupFailed"
    /\ \A p \in DOMAIN protocols : protocols[p].protocol_type # "Close"

====
